---- MODULE Spec2Model ----
(***************************************************************************)
(* Model of the pygame input/menu toolkit: the singleton device trackers   *)
(* (Keyboard, Mouse, Joystick) of tools/softwares.py with their edge and   *)
(* repeat-delay queries, the doubly linked Option of models/menus.py and   *)
(* the Menu with its focus bookkeeping and blocking loop.                  *)
(*                                                                         *)
(* Python dicts are functions whose DOMAIN is the set of keys present.     *)
(* Time is the value of time.time() in milliseconds.  Return values of     *)
(* the tri-state queries are the strings "True", "False" and "None"; a     *)
(* raised KeyError is the string "KeyError".                               *)
(***************************************************************************)
EXTENDS Integers, Sequences, FiniteSets, TLC

VARIABLES
    now,        \* time.time(), in milliseconds
    keyboard,   \* the Keyboard singleton: _key_type, _key_first, _key_time, _unicode
    mouse,      \* the Mouse singleton: _pos, _rel, _button_type, _button_first, _button_time
    joystick,   \* the Joystick(0) tracker: _id and the button/axis/hat dicts
    device,     \* the tracker (and joystick channel) this run feeds and queries
    last,       \* the latest tracker call: operation, arguments, result; in a
                \* Menu loop the update of the iteration and the buttons it pressed
    seen,       \* history: identifiers that appeared in an event of some batch
    fresh,      \* history: identifiers with a Down event since their last push
    lastTrue,   \* history: identifier -> time of its last push that returned True,
                \* and identifier with a delay -> time of the last True of a push
                \* with that delay, while no event has named the identifier since
    pressedChar,\* history: key code -> character reported with its latest KEYDOWN
    screen,     \* the Screen singleton: running, the sizes, the six mode flags,
                \* and display_mode, what pygame.display.set_mode was last given
    options,    \* the Option objects in construction order; an Option is its index
    menu,       \* the Menu whose call is innermost: kind, options, option, running,
                \* pos, size
    stack,      \* the Menus whose apply() is waiting for a sub-menu's loop(),
                \* outermost first
    pc,         \* where the innermost Menu.loop stands
    applied,    \* the Option that was focused at the latest apply(), or None
    raised,     \* the exception a Menu or Option call raised, "" when none
    lastNew,    \* history: the latest Option construction and its arguments
    trace,      \* history: the latest Menu step and the calls it made, in order
    registry,   \* a class under the singleton decorator: parameters, and the
                \* instances dict of its wrapper
    made,       \* history: the construction calls made, each with what it returned
                \* or raised
    surface,    \* a Surface: _size, the size of _image and the size of _area
    direct      \* history: the number of calls made directly on Options built before

trackerVarsButDirect ==
    <<now, keyboard, mouse, joystick, device, last, seen, fresh, lastTrue, pressedChar,
      registry, made, surface>>

trackerVars == <<trackerVarsButDirect, direct>>

menuVars == <<screen, options, menu, stack, pc, applied, raised, lastNew, trace>>

menuVarsButPc == <<screen, options, menu, stack, applied, raised, lastNew>>

vars == <<now, keyboard, mouse, joystick, device, last, seen, fresh, lastTrue, pressedChar,
          screen, options, menu, stack, pc, applied, raised, lastNew, trace, registry, made, surface,
          direct>>

----------------------------------------------------------------------------
(* Bounds of the model *)

\* longest event batch handed to one update() call
MaxBatch == 2

\* frames a MainMenu run lasts
MaxFrames == 6

\* construction calls of a decorated class in one run
MaxCalls == 3

\* the repeat delay d of the cadence scenario (queries at 0, d/2, d, 2d)
TestDelay == 100

\* calls in one run of a program over Options: constructions, and calls and
\* assignments made directly on an Option constructed before
MaxOptionCalls == 4

\* most Options constructed for the Menu
MaxMenuOptions == 3

(* Program constants *)

\* keyboard.push('up', 0.233): 0.233 s
UpDownDelay == 233

\* keyboard.push(key, 99), mouse.push(1, 99): 99 s
ConfirmDelay == 99000

\* push_axis dead-zone 0.1, in thousandths of the axis range
DeadZone == 100

\* clock.tick(20): a frame lasts at least 1000 / 20 ms
FrameTime == 50

----------------------------------------------------------------------------
(* Dict helpers *)

EmptyDict == [x \in {} |-> 0]

Put(f, k, v) == [x \in (DOMAIN f) \cup {k} |-> IF x = k THEN v ELSE f[x]]

Has(f, k) == k \in DOMAIN f

BoundedSeq(S, n) == UNION {[1..k -> S] : k \in 0..n}

----------------------------------------------------------------------------
(* The display backend: what it reports with a key *)

\* pygame.key.name(key); '' for a key without a name
KeyName(key) ==
    CASE key = "K_a" -> "a"
      [] key = "K_UP" -> "up"
      [] key = "K_DOWN" -> "down"
      [] key = "K_RETURN" -> "return"
      [] key = "K_KP_ENTER" -> "enter"
      [] OTHER -> ""

\* event.unicode of a KEYDOWN: the character the key produces under the
\* modifier state, '' for a key that prints nothing.  mod 1 is KMOD_LSHIFT.
Unicode(key, mod) ==
    CASE key = "K_a" /\ mod = 0 -> "a"
      [] key = "K_a" /\ mod # 0 -> "A"
      [] key = "K_RETURN" -> "CR"
      [] key = "K_KP_ENTER" -> "CR"
      [] OTHER -> ""

KeyDownEvent(k, m) == [type |-> "KEYDOWN", key |-> k, mod |-> m, unicode |-> Unicode(k, m)]

KeyUpEvent(k, m) == [type |-> "KEYUP", key |-> k, mod |-> m]

----------------------------------------------------------------------------
(* Keyboard *)

KeyboardInit ==
    [key_type |-> EmptyDict, key_first |-> EmptyDict,
     key_time |-> EmptyDict, unicode |-> EmptyDict]

\* one pass of the for loop of Keyboard.update
KeyboardEvent(kb, e) ==
    IF e.type = "KEYDOWN" THEN
        LET k1 == [kb EXCEPT !.key_type = Put(@, e.key, "KEYDOWN"),
                             !.key_first = Put(@, e.key, TRUE)]
            k2 == IF e.unicode # ""
                  THEN [k1 EXCEPT !.key_type = Put(@, e.unicode, "KEYDOWN"),
                                  !.key_first = Put(@, e.unicode, TRUE),
                                  !.unicode = Put(@, <<e.key, e.mod>>, e.unicode)]
                  ELSE k1
            k3 == IF KeyName(e.key) # ""
                  THEN [k2 EXCEPT !.key_type = Put(@, KeyName(e.key), "KEYDOWN"),
                                  !.key_first = Put(@, KeyName(e.key), TRUE)]
                  ELSE k2
        IN  k3
    ELSE IF e.type = "KEYUP" THEN
        LET k1 == [kb EXCEPT !.key_type = Put(@, e.key, "KEYUP")]
            k2 == IF Has(k1.unicode, <<e.key, e.mod>>)
                  THEN [k1 EXCEPT !.key_type = Put(@, k1.unicode[<<e.key, e.mod>>], "KEYUP")]
                  ELSE k1
            k3 == IF KeyName(e.key) # ""
                  THEN [k2 EXCEPT !.key_type = Put(@, KeyName(e.key), "KEYUP")]
                  ELSE k2
        IN  k3
    ELSE kb

RECURSIVE KeyboardUpdate(_, _)
KeyboardUpdate(kb, events) ==
    IF events = << >> THEN kb
    ELSE KeyboardUpdate(KeyboardEvent(kb, Head(events)), Tail(events))

\* Keyboard.push answering False, not None, for a key it does not know
KeyboardPushBool(kb, key, delay, t) ==
    IF ~Has(kb.key_type, key) \/ ~Has(kb.key_first, key)
    THEN [obj |-> kb, ret |-> "False"]
    ELSE IF kb.key_first[key] = TRUE
    THEN [obj |-> [kb EXCEPT !.key_first = Put(@, key, FALSE),
                             !.key_time = Put(@, key, t)],
          ret |-> "True"]
    ELSE IF kb.key_type[key] # "KEYDOWN"
    THEN [obj |-> kb, ret |-> "False"]
    ELSE IF t - kb.key_time[key] >= delay
    THEN [obj |-> [kb EXCEPT !.key_time = Put(@, key, t)], ret |-> "True"]
    ELSE [obj |-> kb, ret |-> "False"]

\* Keyboard.push that does not restart the timer when a repeat fires
KeyboardPushNoRearm(kb, key, delay, t) ==
    IF ~Has(kb.key_type, key) \/ ~Has(kb.key_first, key)
    THEN [obj |-> kb, ret |-> "None"]
    ELSE IF kb.key_first[key] = TRUE
    THEN [obj |-> [kb EXCEPT !.key_first = Put(@, key, FALSE),
                             !.key_time = Put(@, key, t)],
          ret |-> "True"]
    ELSE IF kb.key_type[key] # "KEYDOWN"
    THEN [obj |-> kb, ret |-> "False"]
    ELSE IF t - kb.key_time[key] >= delay
    THEN [obj |-> kb, ret |-> "True"]
    ELSE [obj |-> kb, ret |-> "False"]

\* Keyboard.push(key, delay) called at time t: the tracker after the call
\* and the value returned
KeyboardPush(kb, key, delay, t) ==
    IF ~Has(kb.key_type, key) \/ ~Has(kb.key_first, key)
    THEN [obj |-> kb, ret |-> "None"]
    ELSE IF kb.key_first[key] = TRUE
    THEN [obj |-> [kb EXCEPT !.key_first = Put(@, key, FALSE),
                             !.key_time = Put(@, key, t)],
          ret |-> "True"]
    ELSE IF kb.key_type[key] # "KEYDOWN"
    THEN [obj |-> kb, ret |-> "False"]
    ELSE IF ~Has(kb.key_time, key)
    THEN [obj |-> kb, ret |-> "KeyError"]
    ELSE IF t - kb.key_time[key] >= delay
    THEN [obj |-> [kb EXCEPT !.key_time = Put(@, key, t)], ret |-> "True"]
    ELSE [obj |-> kb, ret |-> "False"]

----------------------------------------------------------------------------
(* Mouse *)

MouseInit ==
    [pos |-> <<0, 0>>, rel |-> <<0, 0>>, button_type |-> EmptyDict,
     button_first |-> EmptyDict, button_time |-> EmptyDict]

\* one pass of the for loop of Mouse.update
MouseEvent(ms, e) ==
    IF e.type = "MOUSEBUTTONDOWN"
    THEN [ms EXCEPT !.button_type = Put(@, e.button, "MOUSEBUTTONDOWN"),
                    !.button_first = Put(@, e.button, TRUE)]
    ELSE IF e.type = "MOUSEBUTTONUP"
    THEN [ms EXCEPT !.button_type = Put(@, e.button, "MOUSEBUTTONUP")]
    ELSE IF e.type = "MOUSEMOTION"
    THEN [ms EXCEPT !.pos = e.pos, !.rel = e.rel]
    ELSE ms

RECURSIVE MouseEvents(_, _)
MouseEvents(ms, events) ==
    IF events = << >> THEN ms
    ELSE MouseEvents(MouseEvent(ms, Head(events)), Tail(events))

\* Mouse.update: _rel is reset before the events are read
MouseUpdate(ms, events) == MouseEvents([ms EXCEPT !.rel = <<0, 0>>], events)

\* Mouse.move()
MouseMove(ms) == ~(ms.rel = <<0, 0>>)

\* Mouse.push testing the Down/Up state before the first-press flag
MousePushTypeFirst(ms, button, delay, t) ==
    IF ~Has(ms.button_type, button)
    THEN [obj |-> ms, ret |-> "None"]
    ELSE IF ms.button_type[button] # "MOUSEBUTTONDOWN"
    THEN [obj |-> ms, ret |-> "False"]
    ELSE IF ms.button_first[button]
    THEN [obj |-> [ms EXCEPT !.button_first = Put(@, button, FALSE),
                             !.button_time = Put(@, button, t)],
          ret |-> "True"]
    ELSE IF t - ms.button_time[button] >= delay
    THEN [obj |-> [ms EXCEPT !.button_time = Put(@, button, t)], ret |-> "True"]
    ELSE [obj |-> ms, ret |-> "False"]

\* Mouse.push(button, delay) called at time t
MousePush(ms, button, delay, t) ==
    IF ~Has(ms.button_type, button)
    THEN [obj |-> ms, ret |-> "None"]
    ELSE IF ~Has(ms.button_first, button)
    THEN [obj |-> ms, ret |-> "KeyError"]
    ELSE IF ms.button_first[button]
    THEN [obj |-> [ms EXCEPT !.button_first = Put(@, button, FALSE),
                             !.button_time = Put(@, button, t)],
          ret |-> "True"]
    ELSE IF ms.button_type[button] # "MOUSEBUTTONDOWN"
    THEN [obj |-> ms, ret |-> "False"]
    ELSE IF ~Has(ms.button_time, button)
    THEN [obj |-> ms, ret |-> "KeyError"]
    ELSE IF t - ms.button_time[button] >= delay
    THEN [obj |-> [ms EXCEPT !.button_time = Put(@, button, t)], ret |-> "True"]
    ELSE [obj |-> ms, ret |-> "False"]

----------------------------------------------------------------------------
(* Joystick *)

JoystickInit(id) ==
    [id |-> id,
     button_type |-> EmptyDict, button_first |-> EmptyDict, button_time |-> EmptyDict,
     axis_value |-> EmptyDict, axis_first |-> EmptyDict, axis_time |-> EmptyDict,
     hat_value |-> EmptyDict, hat_first |-> EmptyDict, hat_time |-> EmptyDict]

\* one pass of the for loop of Joystick.update
JoystickEvent(js, e) ==
    IF e.type = "JOYBUTTONDOWN" THEN
        IF e.joy = js.id
        THEN [js EXCEPT !.button_type = Put(@, e.button, "JOYBUTTONDOWN"),
                        !.button_first = Put(@, e.button, TRUE)]
        ELSE js
    ELSE IF e.type = "JOYBUTTONUP" THEN
        IF e.joy = js.id
        THEN [js EXCEPT !.button_type = Put(@, e.button, "JOYBUTTONUP")]
        ELSE js
    ELSE IF e.type = "JOYAXISMOTION" THEN
        IF e.joy = js.id
        THEN [js EXCEPT !.axis_value = Put(@, e.axis, e.value),
                        !.axis_first = Put(@, e.axis, TRUE)]
        ELSE js
    ELSE IF e.type = "JOYHATMOTION" THEN
        IF e.joy = js.id
        THEN [js EXCEPT !.hat_value = Put(@, e.hat, e.value),
                        !.hat_first = Put(@, e.hat, TRUE)]
        ELSE js
    ELSE js

RECURSIVE JoystickUpdate(_, _)
JoystickUpdate(js, events) ==
    IF events = << >> THEN js
    ELSE JoystickUpdate(JoystickEvent(js, Head(events)), Tail(events))

\* Joystick.push_button(button, delay) called at time t
JoystickPushButton(js, button, delay, t) ==
    IF ~Has(js.button_type, button)
    THEN [obj |-> js, ret |-> "None"]
    ELSE IF ~Has(js.button_first, button)
    THEN [obj |-> js, ret |-> "KeyError"]
    ELSE IF js.button_first[button]
    THEN [obj |-> [js EXCEPT !.button_first = Put(@, button, FALSE),
                             !.button_time = Put(@, button, t)],
          ret |-> "True"]
    ELSE IF js.button_type[button] # "JOYBUTTONDOWN"
    THEN [obj |-> js, ret |-> "False"]
    ELSE IF ~Has(js.button_time, button)
    THEN [obj |-> js, ret |-> "KeyError"]
    ELSE IF t - js.button_time[button] >= delay
    THEN [obj |-> [js EXCEPT !.button_time = Put(@, button, t)], ret |-> "True"]
    ELSE [obj |-> js, ret |-> "False"]

\* Joystick.push_axis(axis, delay) called at time t
JoystickPushAxis(js, axis, delay, t) ==
    IF ~Has(js.axis_value, axis)
    THEN [obj |-> js, ret |-> "None"]
    ELSE IF js.axis_first[axis]
    THEN [obj |-> [js EXCEPT !.axis_first = Put(@, axis, FALSE),
                             !.axis_time = Put(@, axis, t)],
          ret |-> "True"]
    ELSE IF -DeadZone <= js.axis_value[axis] /\ js.axis_value[axis] <= DeadZone
    THEN [obj |-> js, ret |-> "False"]
    ELSE IF t - js.axis_time[axis] >= delay
    THEN [obj |-> [js EXCEPT !.axis_time = Put(@, axis, t)], ret |-> "True"]
    ELSE [obj |-> js, ret |-> "False"]

\* Joystick.push_hat(hat, delay) called at time t
JoystickPushHat(js, hat, delay, t) ==
    IF ~Has(js.hat_value, hat)
    THEN [obj |-> js, ret |-> "None"]
    ELSE IF js.hat_first[hat]
    THEN [obj |-> [js EXCEPT !.hat_first = Put(@, hat, FALSE),
                             !.hat_time = Put(@, hat, t)],
          ret |-> "True"]
    ELSE IF js.hat_value[hat] = <<0, 0>>
    THEN [obj |-> js, ret |-> "False"]
    ELSE IF t - js.hat_time[hat] >= delay
    THEN [obj |-> [js EXCEPT !.hat_time = Put(@, hat, t)], ret |-> "True"]
    ELSE [obj |-> js, ret |-> "False"]

----------------------------------------------------------------------------
(* The singleton decorator.  A construction call is a record of the         *)
(* positional arguments and of the keyword arguments in the order the call  *)
(* writes them, the order the kwargs dict keeps.                            *)

\* no class decorated yet
NoClass == [name |-> "", parameters |-> FALSE, instances |-> EmptyDict]

\* decorator(cls): the wrapper's closure over cls, parameters and instances = {}
Decorate(name, parameters) ==
    [name |-> name, parameters |-> parameters, instances |-> EmptyDict]

\* argument values, by their Python type: an int, a str, a tuple
IntValue(v) == [int |-> v]

StrValue(v) == [str |-> v]

TupleValue(v) == [tuple |-> v]

\* type(v).__name__
TypeOf(v) == CHOOSE t \in DOMAIN v : TRUE

\* repr of an argument value, as str(kwargs) writes it
Repr(v) ==
    CASE TypeOf(v) = "int" ->
            (CASE v.int = 0 -> "0" [] v.int = 1 -> "1" [] v.int = 2 -> "2" [] v.int = 3 -> "3"
               [] OTHER -> "?")
      [] TypeOf(v) = "str" ->
            (CASE v.str = "Lab" -> "'Lab'" [] v.str = "Pygame Window" -> "'Pygame Window'"
               [] OTHER -> "?")
      [] OTHER -> "?"

\* str(kwargs): the items in the order of the dict, "name: repr(value)"
RECURSIVE Str(_)
Str(kwargs) ==
    IF kwargs = << >> THEN << >>
    ELSE <<<<kwargs[1][1], Repr(kwargs[1][2])>>>> \o Str(Tail(kwargs))

\* wrapper, line 38: the key of a call
Key(cls, call) ==
    IF cls.parameters THEN <<cls.name, call.args, Str(call.kwargs)>> ELSE <<cls.name>>

\* the parameters of __init__ after self, by class: Screen, Joystick, the
\* Singleton of the decorator's docstring, and Pair, a class of two required
\* parameters a and b
Params(name) ==
    CASE name = "Screen" ->
            <<[name |-> "size", required |-> FALSE], [name |-> "color", required |-> FALSE],
              [name |-> "title", required |-> FALSE], [name |-> "flags", required |-> FALSE]>>
      [] name = "Joystick" -> <<[name |-> "id_", required |-> FALSE]>>
      [] name = "Singleton" -> <<[name |-> "id", required |-> TRUE]>>
      [] name = "Pair" -> <<[name |-> "a", required |-> TRUE], [name |-> "b", required |-> TRUE]>>
      [] OTHER -> << >>

\* the call binds: no more positional arguments than parameters, every
\* keyword a parameter that no positional argument fills, and every required
\* parameter filled
Binds(name, call) ==
    LET ps == Params(name)
        n == Len(call.args)
        given == {call.kwargs[i][1] : i \in 1..Len(call.kwargs)}
    IN  /\ n <= Len(ps)
        /\ \A k \in given : \E i \in (n + 1)..Len(ps) : ps[i].name = k
        /\ \A i \in (n + 1)..Len(ps) : ps[i].required => ps[i].name \in given

\* the value the call passes for the parameter named p, << >> when it passes
\* none
Given(name, call, p) ==
    LET i == CHOOSE k \in 1..Len(Params(name)) : Params(name)[k].name = p
        named == {k \in 1..Len(call.kwargs) : call.kwargs[k][1] = p}
    IN  IF i <= Len(call.args) THEN <<call.args[i]>>
        ELSE IF named = {} THEN << >>
        ELSE <<call.kwargs[CHOOSE k \in named : TRUE][2]>>

\* the colour names of the display backend, among the strings of the model
ColorNames == {"black", "red", "white"}

\* a colour the backend's Surface.fill takes: a mapped int, a colour name, or
\* three or four components from 0 to 255
IsColor(v) ==
    CASE TypeOf(v) = "int" -> TRUE
      [] TypeOf(v) = "str" -> v.str \in ColorNames
      [] TypeOf(v) = "tuple" ->
            /\ Len(v.tuple) \in {3, 4}
            /\ \A i \in 1..Len(v.tuple) : v.tuple[i] \in 0..255
      [] OTHER -> FALSE

\* 'FULLSCREEN' in flags, on the values of the model: a string holds it when
\* it is that string, and the tuples hold ints
Fullscreen(call) ==
    LET v == Given("Screen", call, "flags")
    IN  v # << >> /\ TypeOf(v[1]) = "str" /\ v[1].str = "FULLSCREEN"

\* the parameters in the order in which __init__ first uses their values:
\* Screen.__init__ tests 'FULLSCREEN' in flags, then reset_screen hands
\* self.size to display.set_mode (the size passed, or the display's own size
\* when fullscreen), color to fill and title to display.set_caption;
\* Joystick.__init__ compares id_ with the count of joysticks
Uses(name, call) ==
    CASE name = "Screen" ->
            IF Fullscreen(call) THEN <<"flags", "color", "title">>
            ELSE <<"flags", "size", "color", "title">>
      [] name = "Joystick" -> <<"id_">>
      [] OTHER -> << >>

\* the exception raised where __init__ uses the value v passed for p, "" when
\* it goes on
Refuses(name, p, v) ==
    CASE name = "Screen" /\ p = "flags" -> IF TypeOf(v) = "int" THEN "TypeError" ELSE ""
      [] name = "Screen" /\ p = "size" ->
            IF TypeOf(v) = "tuple" /\ Len(v.tuple) = 2 THEN "" ELSE "TypeError"
      [] name = "Screen" /\ p = "color" -> IF IsColor(v) THEN "" ELSE "ValueError"
      [] name = "Screen" /\ p = "title" -> IF TypeOf(v) = "str" THEN "" ELSE "TypeError"
      [] name = "Joystick" /\ p = "id_" -> IF TypeOf(v) = "int" THEN "" ELSE "TypeError"
      [] OTHER -> ""

\* the exception __init__ raises on the values of the call: that of the
\* first use that raises, "" when it runs to its end
RECURSIVE InitRaises(_, _, _)
InitRaises(name, call, uses) ==
    IF uses = << >> THEN ""
    ELSE LET v == Given(name, call, Head(uses))
             r == IF v = << >> THEN "" ELSE Refuses(name, Head(uses), v[1])
         IN  IF r # "" THEN r ELSE InitRaises(name, call, Tail(uses))

\* no object: what a call that raised returns
NoInstance == [n |-> 0, init |-> [args |-> << >>, kwargs |-> << >>]]

\* cls(*args, **kwargs): the new object, numbered in order of creation, or
\* the TypeError of a call that does not bind, or the exception __init__
\* raises on a value it cannot use
New(cls, call) ==
    IF ~Binds(cls.name, call)
    THEN [obj |-> NoInstance, raised |-> "TypeError"]
    ELSE IF InitRaises(cls.name, call, Uses(cls.name, call)) # ""
    THEN [obj |-> NoInstance, raised |-> InitRaises(cls.name, call, Uses(cls.name, call))]
    ELSE [obj |-> [n |-> Cardinality(DOMAIN cls.instances) + 1, init |-> call], raised |-> ""]

\* wrapper(*args, **kwargs): the class after the call and the instance
\* returned; when the construction raises nothing is stored
Wrapper(cls, call) ==
    LET key == Key(cls, call)
        new == New(cls, call)
    IN  IF Has(cls.instances, key)
        THEN [obj |-> cls, ret |-> cls.instances[key], raised |-> ""]
        ELSE IF new.raised # ""
        THEN [obj |-> cls, ret |-> NoInstance, raised |-> new.raised]
        ELSE [obj |-> [cls EXCEPT !.instances = Put(@, key, new.obj)],
              ret |-> new.obj, raised |-> ""]

----------------------------------------------------------------------------
(* Screen *)

\* the display mode constants of the pygame backend
FULLSCREEN == -2147483647 - 1

DOUBLEBUF == 1073741824

HWSURFACE == 1

OPENGL == 2

RESIZABLE == 16

NOFRAME == 32

\* the size of the desktop, pygame.display.Info() at start
DesktopSize == <<1920, 1080>>

\* Screen.size
ScreenSize(sc) == IF sc.fullscreen THEN sc.fullscreen_size ELSE sc.windowedscreen_size

\* Screen.flags: the mode bitmask of the six flags
ScreenFlags(sc) ==
    (IF sc.fullscreen THEN FULLSCREEN ELSE 0)
        + (IF sc.doublebuf THEN DOUBLEBUF ELSE 0)
        + (IF sc.hwsurface THEN HWSURFACE ELSE 0)
        + (IF sc.opengl THEN OPENGL ELSE 0)
        + (IF sc.resizable THEN RESIZABLE ELSE 0)
        + (IF sc.noframe THEN NOFRAME ELSE 0)

\* Screen.reset_title: pygame.display.set_caption(self.title)
ResetTitle(sc) == [sc EXCEPT !.display_caption = sc.title]

\* Screen.reset_screen: pygame.display.set_mode(self.size, self.flags), then the
\* colour and the title
ResetScreen(sc) ==
    ResetTitle([sc EXCEPT !.display_mode = [size |-> ScreenSize(sc), flags |-> ScreenFlags(sc)]])

\* the size setter of Screen
ScreenSetSize(sc, value) == ResetScreen([sc EXCEPT !.windowedscreen_size = value])

\* the width setter of Screen
ScreenSetWidth(sc, value) ==
    LET height == sc.windowedscreen_size[2]
    IN  ResetScreen([sc EXCEPT !.windowedscreen_size = <<value, height>>])

\* the height setter of Screen
ScreenSetHeight(sc, value) ==
    LET width == sc.windowedscreen_size[1]
    IN  ResetScreen([sc EXCEPT !.windowedscreen_size = <<width, value>>])

\* the title setter of Screen
ScreenSetTitle(sc, value) == ResetTitle([sc EXCEPT !.title = value])

\* Screen.__init__ with the default arguments
ScreenInit ==
    LET self == [running |-> FALSE, fullscreen_size |-> DesktopSize,
                 windowedscreen_size |-> <<800, 600>>, title |-> "Pygame Window",
                 fullscreen |-> FALSE, doublebuf |-> FALSE, hwsurface |-> FALSE,
                 opengl |-> FALSE, resizable |-> FALSE, noframe |-> FALSE,
                 display_mode |-> [size |-> <<0, 0>>, flags |-> 0],
                 display_caption |-> ""]
    IN  ScreenSetSize([ResetScreen(self) EXCEPT !.running = TRUE], <<800, 600>>)

\* the flag setters of Screen
ScreenSetFullscreen(sc, value) == ResetScreen([sc EXCEPT !.fullscreen = value])

ScreenSetDoublebuf(sc, value) == ResetScreen([sc EXCEPT !.doublebuf = value])

ScreenSetHwsurface(sc, value) == ResetScreen([sc EXCEPT !.hwsurface = value])

ScreenSetOpengl(sc, value) == ResetTitle([sc EXCEPT !.opengl = value])

ScreenSetResizable(sc, value) == ResetScreen([sc EXCEPT !.resizable = value])

ScreenSetNoframe(sc, value) == ResetScreen([sc EXCEPT !.noframe = value])

ScreenEvent(sc, e) ==
    IF e.type = "QUIT" THEN [sc EXCEPT !.running = FALSE]
    ELSE IF e.type = "VIDEORESIZE" /\ e.size # ScreenSize(sc) THEN ScreenSetSize(sc, e.size)
    ELSE sc

\* Screen.update(events)
RECURSIVE ScreenUpdate(_, _)
ScreenUpdate(sc, events) ==
    IF events = << >> THEN sc
    ELSE ScreenUpdate(ScreenEvent(sc, Head(events)), Tail(events))

\* Mouse.inside leaving out the right and the bottom edge, as Rect.collidepoint
MouseInsideHalfOpen(ms, area) ==
    LET top == area.topleft
        bot == <<area.topleft[1] + area.size[1], area.topleft[2] + area.size[2]>>
    IN  /\ top[1] <= ms.pos[1] /\ ms.pos[1] < bot[1]
        /\ top[2] <= ms.pos[2] /\ ms.pos[2] < bot[2]

\* Mouse.inside(area), area a rectangle [topleft, size]
MouseInside(ms, area) ==
    LET top == area.topleft
        bot == <<area.topleft[1] + area.size[1], area.topleft[2] + area.size[2]>>
    IN  /\ top[1] <= ms.pos[1] /\ ms.pos[1] <= bot[1]
        /\ top[2] <= ms.pos[2] /\ ms.pos[2] <= bot[2]

----------------------------------------------------------------------------
(* Surface, the sprite that Menu extends.  A size is <<width, height>>;    *)
(* image is the size of the pygame.Surface built by reset_image and area   *)
(* the size of the Rect kept in _area.                                     *)

\* no Surface constructed
NoSurface == [size |-> <<0, 0>>, image |-> <<0, 0>>, area |-> <<0, 0>>]

\* Surface.__init__(size=size): reset_image builds the image from _size and
\* reset_area takes the Rect of the image
SurfaceInit(size) == [size |-> size, image |-> size, area |-> size]

\* Surface.width = value
SurfaceSetWidth(sf, value) ==
    LET height == sf.size[1]
        size == <<value, height>>
    IN  [size |-> size, image |-> size, area |-> <<value, sf.area[2]>>]

\* Surface.height = value
SurfaceSetHeight(sf, value) ==
    LET width == sf.size[1]
        size == <<width, value>>
    IN  [size |-> size, image |-> size, area |-> <<sf.area[1], value>>]

\* Surface.size = value
SurfaceSetSize(sf, value) == [size |-> value, image |-> value, area |-> value]

\* Surface.reset_image(): a new image of the stored size
SurfaceResetImage(sf) == [sf EXCEPT !.image = sf.size]

\* Sprite.reset_area(): the Rect of the image
SurfaceResetArea(sf) == [sf EXCEPT !.area = sf.image]

\* Sprite.__setstate__(__getstate__()): the stored size is kept, the image
\* and then the area are built again
SurfaceSetState(sf) == SurfaceResetArea(SurfaceResetImage(sf))

----------------------------------------------------------------------------
(* Option and Menu.  The Option objects live in the sequence options and a *)
(* reference to an Option is its index; None is the null reference.        *)

None == 0

\* the size of the image the font renders for an Option's message
RenderedSize == <<200, 60>>

\* Option.__init__ that does not tell previous_option about the new Option
OptionInitOneWay(opts, previous_option, next_option) ==
    LET self == Len(opts) + 1
        new == [message_color |-> "black", background_color |-> "None",
                message_color_onblur |-> "black", message_color_onfocus |-> "red",
                background_color_onblur |-> "None", background_color_onfocus |-> "None",
                previous_option |-> previous_option, next_option |-> next_option,
                pos |-> <<0, 0>>, size |-> RenderedSize, menu |-> FALSE]
        o1 == Append(opts, new)
    IN  IF next_option # None THEN [o1 EXCEPT ![next_option].previous_option = self] ELSE o1

\* Option.__init__ with the default colours: the store after constructing
\* a new Option with the given previous_option and next_option
OptionInit(opts, previous_option, next_option) ==
    LET self == Len(opts) + 1
        new == [message_color |-> "black", background_color |-> "None",
                message_color_onblur |-> "black", message_color_onfocus |-> "red",
                background_color_onblur |-> "None", background_color_onfocus |-> "None",
                previous_option |-> None, next_option |-> None,
                pos |-> <<0, 0>>, size |-> RenderedSize, menu |-> FALSE]
        o1 == Append(opts, new)
        o2 == IF previous_option # None THEN [o1 EXCEPT ![previous_option].next_option = self] ELSE o1
        o3 == [o2 EXCEPT ![self].previous_option = previous_option]
        o4 == IF next_option # None THEN [o3 EXCEPT ![next_option].previous_option = self] ELSE o3
    IN  [o4 EXCEPT ![self].next_option = next_option]

\* Option.onblur
OnBlur(opts, o) ==
    [opts EXCEPT ![o].message_color = opts[o].message_color_onblur,
                 ![o].background_color = opts[o].background_color_onblur]

\* Option.onfocus
OnFocus(opts, o) ==
    [opts EXCEPT ![o].message_color = opts[o].message_color_onfocus,
                 ![o].background_color = opts[o].background_color_onfocus]

\* the message_color setter Option inherits from Text
TextSetMessageColor(opts, o, value) == [opts EXCEPT ![o].message_color = value]

\* the background_color setter Option inherits from Text
TextSetBackgroundColor(opts, o, value) == [opts EXCEPT ![o].background_color = value]

\* the pos setter Option inherits from Sprite
SpriteSetPos(opts, o, value) == [opts EXCEPT ![o].pos = value]

\* the x setter Option inherits from Sprite
SpriteSetX(opts, o, value) ==
    LET y == opts[o].pos[2]
    IN  [opts EXCEPT ![o].pos = <<value, y>>]

\* the y setter Option inherits from Sprite
SpriteSetY(opts, o, value) ==
    LET x == opts[o].pos[1]
    IN  [opts EXCEPT ![o].pos = <<x, value>>]

\* the focused visual state: the colours Option.onfocus sets
Focused(opts, o) ==
    /\ opts[o].message_color = opts[o].message_color_onfocus
    /\ opts[o].background_color = opts[o].background_color_onfocus

\* the blurred visual state: the colours Option.onblur sets
Blurred(opts, o) ==
    /\ opts[o].message_color = opts[o].message_color_onblur
    /\ opts[o].background_color = opts[o].background_color_onblur

\* Sprite.area of an Option
Area(opts, o) == [topleft |-> opts[o].pos, size |-> opts[o].size]

RECURSIVE SumHeights(_, _, _)
SumHeights(opts, list, n) ==
    IF n = 0 THEN 0 ELSE SumHeights(opts, list, n - 1) + opts[list[n]].size[2]

\* Menu.reset_options, Option i + 1 of the list and the following ones
RECURSIVE ResetOptionsFrom(_, _, _, _)
ResetOptionsFrom(opts, list, size, i) ==
    IF i >= Len(list) THEN opts
    ELSE LET o == list[i + 1]
             x == (size[1] - opts[o].size[1]) \div 2
             y == SumHeights(opts, list, i)
                    + (size[2] - SumHeights(opts, list, Len(list))) \div 2
         IN  ResetOptionsFrom([opts EXCEPT ![o].menu = TRUE, ![o].pos = <<x, y>>],
                              list, size, i + 1)

\* Menu.reset_options
ResetOptions(opts, list, size) == ResetOptionsFrom(opts, list, size, 0)

\* the latest Option construction: none yet
NoOption == [id |-> None, previous_option |-> None, next_option |-> None]

\* no Menu constructed yet
NoMenu == [built |-> FALSE, kind |-> "Menu", options |-> << >>, option |-> None,
           running |-> FALSE, pos |-> <<0, 0>>, size |-> <<0, 0>>]

\* Menu.__init__ focusing the last Option of the list
MenuInitLast(opts, list, size) ==
    LET o1 == ResetOptions(opts, list, size)
        m == [built |-> TRUE, kind |-> "Menu", options |-> list, option |-> None,
              running |-> TRUE, pos |-> <<0, 0>>, size |-> size]
    IN  IF Len(list) > 0
        THEN [opts |-> OnFocus(o1, list[Len(list)]), menu |-> [m EXCEPT !.option = list[Len(list)]]]
        ELSE [opts |-> o1, menu |-> m]

\* Menu.__init__(options, size): the Option store and the Menu after it
MenuInit(opts, list, size) ==
    LET o1 == ResetOptions(opts, list, size)
        m == [built |-> TRUE, kind |-> "Menu", options |-> list, option |-> None,
              running |-> TRUE, pos |-> <<0, 0>>, size |-> size]
    IN  IF Len(list) > 0
        THEN [opts |-> OnFocus(o1, list[1]), menu |-> [m EXCEPT !.option = list[1]]]
        ELSE [opts |-> o1, menu |-> m]

\* a call made by a Menu step, as the history records it
Call(op, arg) == [op |-> op, arg |-> arg]

\* Menu.focus(option); with no current Option, self.option.onblur() raises.
\* calls lists what it did: onblur, the assignment of self.option, onfocus
MenuFocus(opts, m, option) ==
    IF option # None /\ option # m.option
    THEN IF m.option = None
         THEN [opts |-> opts, menu |-> m, raised |-> "AttributeError", calls |-> << >>]
         ELSE [opts |-> OnFocus(OnBlur(opts, m.option), option),
               menu |-> [m EXCEPT !.option = option], raised |-> "",
               calls |-> <<Call("onblur", m.option), Call("option", option),
                           Call("onfocus", option)>>]
    ELSE [opts |-> opts, menu |-> m, raised |-> "", calls |-> << >>]

\* key navigation whose 'down' edge follows the previous link
LoopKeysBackwards(kb, opts, m, t) ==
    LET up == KeyboardPush(kb, "up", UpDownDelay, t)
        f1 == IF up.ret = "True" /\ opts[m.option].previous_option # None
              THEN MenuFocus(opts, m, opts[m.option].previous_option)
              ELSE [opts |-> opts, menu |-> m, raised |-> "", calls |-> << >>]
        down == KeyboardPush(up.obj, "down", UpDownDelay, t)
        f2 == IF down.ret = "True" /\ f1.opts[f1.menu.option].previous_option # None
              THEN MenuFocus(f1.opts, f1.menu, f1.opts[f1.menu.option].previous_option)
              ELSE [f1 EXCEPT !.calls = << >>]
    IN  [keyboard |-> down.obj, opts |-> f2.opts, menu |-> f2.menu,
         calls |-> f1.calls \o f2.calls]

\* Menu.loop, lines 110-115: key navigation over the links
LoopKeys(kb, opts, m, t) ==
    LET up == KeyboardPush(kb, "up", UpDownDelay, t)
        f1 == IF up.ret = "True" /\ opts[m.option].previous_option # None
              THEN MenuFocus(opts, m, opts[m.option].previous_option)
              ELSE [opts |-> opts, menu |-> m, raised |-> "", calls |-> << >>]
        down == KeyboardPush(up.obj, "down", UpDownDelay, t)
        f2 == IF down.ret = "True" /\ f1.opts[f1.menu.option].next_option # None
              THEN MenuFocus(f1.opts, f1.menu, f1.opts[f1.menu.option].next_option)
              ELSE [f1 EXCEPT !.calls = << >>]
    IN  [keyboard |-> down.obj, opts |-> f2.opts, menu |-> f2.menu,
         calls |-> f1.calls \o f2.calls]

\* Menu.loop, lines 116-120: the first Option of the list, from index i on,
\* whose area holds the pointer; None when there is none
RECURSIVE FirstInside(_, _, _, _)
FirstInside(ms, opts, list, i) ==
    IF i > Len(list) THEN None
    ELSE IF MouseInside(ms, Area(opts, list[i])) THEN list[i]
    ELSE FirstInside(ms, opts, list, i + 1)

\* pointer focus that does not ask whether the pointer moved
LoopPointerStill(ms, opts, m) ==
    IF ~MouseInside(ms, Area(opts, m.option))
    THEN MenuFocus(opts, m, FirstInside(ms, opts, m.options, 1))
    ELSE [opts |-> opts, menu |-> m, raised |-> "", calls |-> << >>]

\* Menu.loop, lines 116-120: pointer focus
LoopPointer(ms, opts, m) ==
    IF MouseMove(ms) /\ ~MouseInside(ms, Area(opts, m.option))
    THEN MenuFocus(opts, m, FirstInside(ms, opts, m.options, 1))
    ELSE [opts |-> opts, menu |-> m, raised |-> "", calls |-> << >>]

\* an ExitMenu whose YES is constructed after the last Option constructed
\* before it, as its next Option
ExitMenuInitLinked(opts) ==
    LET YES == Len(opts) + 1
        NO == Len(opts) + 2
        o1 == OptionInit(opts, Len(opts), None)
        o2 == OptionInit(o1, YES, None)
        r == MenuInit(o2, <<YES, NO>>, ScreenSize(ScreenInit))
    IN  [opts |-> r.opts, menu |-> [r.menu EXCEPT !.kind = "ExitMenu"]]

\* Option(..., action=f), as lab.py constructs its first Option: __init__ has
\* no parameter named action, the call raises and no Option is constructed
OptionInitAction(opts, previous_option, next_option) ==
    [opts |-> opts, raised |-> "TypeError"]

\* option.apply(), as lab.py calls it on a click: neither Option nor its base
\* classes Text and Sprite define apply, the attribute lookup raises
OptionApply(opts, o) ==
    [opts |-> opts, raised |-> "AttributeError", calls |-> << >>]

\* ExitMenu.__init__: YES and NO are constructed, then the Menu over them
ExitMenuInit(opts) ==
    LET YES == Len(opts) + 1
        NO == Len(opts) + 2
        o1 == OptionInit(opts, None, None)
        o2 == OptionInit(o1, YES, None)
        r == MenuInit(o2, <<YES, NO>>, ScreenSize(ScreenInit))
    IN  [opts |-> r.opts, menu |-> [r.menu EXCEPT !.kind = "ExitMenu"]]

\* MainMenu.__init__: PLAY, EDITOR, OPTIONS and EXIT are constructed, then the
\* Menu over them
MainMenuInit(opts) ==
    LET PLAY == Len(opts) + 1
        EDITOR == Len(opts) + 2
        OPTIONS == Len(opts) + 3
        EXIT == Len(opts) + 4
        o1 == OptionInit(opts, None, None)
        o2 == OptionInit(o1, PLAY, None)
        o3 == OptionInit(o2, EDITOR, None)
        o4 == OptionInit(o3, OPTIONS, PLAY)
        r == MenuInit(o4, <<PLAY, EDITOR, OPTIONS, EXIT>>, ScreenSize(ScreenInit))
    IN  [opts |-> r.opts, menu |-> [r.menu EXCEPT !.kind = "MainMenu"]]

\* apply() of Menu, ExitMenu and MainMenu: the screen and the Menu after it, and
\* whether it opens an ExitMenu.  YES, NO and EXIT are the attributes the
\* constructors set: the first, second and fourth Option of the list
MenuApply(sc, m) ==
    IF m.kind = "ExitMenu"
    THEN IF m.option = m.options[1]
         THEN [screen |-> [sc EXCEPT !.running = FALSE], menu |-> m, open |-> FALSE]
         ELSE IF m.option = m.options[2]
         THEN [screen |-> sc, menu |-> [m EXCEPT !.running = FALSE], open |-> FALSE]
         ELSE [screen |-> sc, menu |-> m, open |-> FALSE]
    ELSE IF m.kind = "MainMenu"
    THEN [screen |-> sc, menu |-> m, open |-> m.option = m.options[4]]
    ELSE [screen |-> sc, menu |-> m, open |-> FALSE]

\* the state of the screen, the Options and the Menu before any of them is used
MenuIdle ==
    /\ screen = ScreenInit
    /\ options = << >>
    /\ menu = NoMenu
    /\ stack = << >>
    /\ pc = "idle"
    /\ applied = None
    /\ raised = ""
    /\ lastNew = NoOption
    /\ trace = <<Call("init", None)>>

\* Menu.loop, lines 125-126: the three confirm keys are all queried, the
\* click only when none of them fired; a KeyError of Mouse.push ends the loop
LoopConfirmQueries(kb, ms, opts, m, t) ==
    LET k1 == KeyboardPush(kb, "enter", ConfirmDelay, t)
        k2 == KeyboardPush(k1.obj, "return", ConfirmDelay, t)
        k3 == KeyboardPush(k2.obj, "keypad enter", ConfirmDelay, t)
        key == k1.ret = "True" \/ k2.ret = "True" \/ k3.ret = "True"
        click == MousePush(ms, 1, ConfirmDelay, t)
    IN  IF key
        THEN [keyboard |-> k3.obj, mouse |-> ms, apply |-> TRUE, raised |-> ""]
        ELSE IF click.ret = "KeyError"
        THEN [keyboard |-> k3.obj, mouse |-> ms, apply |-> FALSE, raised |-> "KeyError"]
        ELSE [keyboard |-> k3.obj, mouse |-> click.obj,
              apply |-> click.ret = "True" /\ MouseInside(click.obj, Area(opts, m.option)),
              raised |-> ""]

----------------------------------------------------------------------------
(* A polling program over one tracker: batches of backend events are fed   *)
(* to update(), push queries are made with any delay, and the clock runs.  *)
(* The trackers share no state and a joystick keeps its buttons, axes and  *)
(* hats in separate dicts, so a run exercises the one named by device.     *)

\* instants at which the clock is read
Instants == {0, TestDelay \div 2, TestDelay, 2 * TestDelay, ConfirmDelay}

\* delays passed to the push queries
Delays == {0, TestDelay, ConfirmDelay}

InputKeys == {"K_a"}

Mods == {0, 1}

KeyEvents ==
    {KeyDownEvent(k, m) : k \in InputKeys, m \in Mods}
        \cup {KeyUpEvent(k, m) : k \in InputKeys, m \in Mods}

\* identifiers queried on the keyboard: key codes, characters and names
KeyIds == {"K_a", "a", "A", "up"}

InputButtons == {1}

Points == {<<1, 1>>}

Motions == {<<0, 0>>, <<1, 0>>}

MouseButtonEvents ==
    {[type |-> "MOUSEBUTTONDOWN", button |-> b] : b \in InputButtons}
        \cup {[type |-> "MOUSEBUTTONUP", button |-> b] : b \in InputButtons}

MouseMotionEvents == {[type |-> "MOUSEMOTION", pos |-> p, rel |-> r] : p \in Points, r \in Motions}

\* buttons queried on the mouse
ButtonIds == {1, 2}

JoyIds == {0, 1}

AxisValues == {50, 500}

HatValues == {<<0, 0>>, <<1, 0>>}

JoyButtonEvents ==
    {[type |-> "JOYBUTTONDOWN", joy |-> j, button |-> 0] : j \in JoyIds}
        \cup {[type |-> "JOYBUTTONUP", joy |-> j, button |-> 0] : j \in JoyIds}

JoyAxisEvents ==
    {[type |-> "JOYAXISMOTION", joy |-> j, axis |-> 0, value |-> v] : j \in JoyIds, v \in AxisValues}

JoyHatEvents ==
    {[type |-> "JOYHATMOTION", joy |-> j, hat |-> 0, value |-> v] : j \in JoyIds, v \in HatValues}

\* the joystick events of a run: those of the channel the run queries
JoyEvents ==
    CASE device.tracker = "joystick.button" -> JoyButtonEvents
      [] device.tracker = "joystick.axis" -> JoyAxisEvents
      [] device.tracker = "joystick.hat" -> JoyHatEvents
      [] OTHER -> {}

\* buttons, axes and hats queried on the joystick
JoyQueryIds == {0, 1}

(* One run polls one identifier of one tracker: a push reads and writes    *)
(* only the entries of the identifier it is given, so identifiers and      *)
(* trackers are explored one at a time.                                    *)
Devices ==
    {[tracker |-> "keyboard", polled |-> k] : k \in KeyIds}
        \cup {[tracker |-> "mouse", polled |-> b] : b \in ButtonIds}
        \cup {[tracker |-> t, polled |-> i] :
                t \in {"joystick.button", "joystick.axis", "joystick.hat"}, i \in JoyQueryIds}

(* History kept beside the trackers, read off the batches and the results. *)
(* Of the trackers' own dicts only Keyboard._unicode is read: the entry a   *)
(* KEYUP writes for a character is the one stored for its (key, mod).       *)

\* the identifiers one event names, the dict entries update writes for it, as
\* <<channel, identifier>>; unicode is Keyboard._unicode when the event is read
EventIds(e, joy, unicode) ==
    IF e.type \in {"KEYDOWN", "KEYUP"} THEN
        {<<"key", e.key>>}
            \cup (IF e.type = "KEYDOWN" /\ e.unicode # "" THEN {<<"key", e.unicode>>} ELSE {})
            \cup (IF e.type = "KEYUP" /\ Has(unicode, <<e.key, e.mod>>)
                  THEN {<<"key", unicode[<<e.key, e.mod>>]>>} ELSE {})
            \cup (IF KeyName(e.key) # "" THEN {<<"key", KeyName(e.key)>>} ELSE {})
    ELSE IF e.type \in {"MOUSEBUTTONDOWN", "MOUSEBUTTONUP"} THEN {<<"mbutton", e.button>>}
    ELSE IF e.type \in {"JOYBUTTONDOWN", "JOYBUTTONUP"} /\ e.joy = joy THEN {<<"jbutton", e.button>>}
    ELSE IF e.type = "JOYAXISMOTION" /\ e.joy = joy THEN {<<"axis", e.axis>>}
    ELSE IF e.type = "JOYHATMOTION" /\ e.joy = joy THEN {<<"hat", e.hat>>}
    ELSE {}

IsDown(e) == e.type \in {"KEYDOWN", "MOUSEBUTTONDOWN", "JOYBUTTONDOWN"}

\* Keyboard._unicode after one event
Stored(unicode, e) ==
    IF e.type = "KEYDOWN" /\ e.unicode # ""
    THEN Put(unicode, <<e.key, e.mod>>, e.unicode)
    ELSE unicode

RECURSIVE BatchIds(_, _, _)
BatchIds(events, joy, unicode) ==
    IF events = << >> THEN {}
    ELSE EventIds(Head(events), joy, unicode)
            \cup BatchIds(Tail(events), joy, Stored(unicode, Head(events)))

\* the identifiers the Down events of a batch name
BatchDownIds(events, joy) ==
    UNION {IF IsDown(events[i]) THEN EventIds(events[i], joy, EmptyDict) ELSE {} :
            i \in 1..Len(events)}

RECURSIVE PressedChars(_, _)
PressedChars(chars, events) ==
    IF events = << >> THEN chars
    ELSE PressedChars(IF Head(events).type = "KEYDOWN"
                      THEN Put(chars, Head(events).key, Head(events).unicode)
                      ELSE chars,
                      Tail(events))

\* the per-delay entries of the history of True answers are kept for the
\* identifiers that no event of the batch names
Unnamed(times, ids) ==
    [k \in {c \in DOMAIN times : Len(c) = 2 \/ <<c[1], c[2]>> \notin ids} |-> times[k]]

NoteUpdate(events) ==
    /\ seen' = seen \cup BatchIds(events, joystick.id, keyboard.unicode)
    /\ fresh' = fresh \cup BatchDownIds(events, joystick.id)
    /\ pressedChar' = PressedChars(pressedChar, events)
    /\ last' = [op |-> "update"]
    /\ lastTrue' = Unnamed(lastTrue, BatchIds(events, joystick.id, keyboard.unicode))

NotePush(chan, id, delay, ret) ==
    /\ last' = [op |-> "push", chan |-> chan, id |-> id, delay |-> delay, ret |-> ret]
    /\ fresh' = fresh \ {<<chan, id>>}
    /\ lastTrue' = IF ret = "True"
                   THEN Put(Put(lastTrue, <<chan, id>>, now), <<chan, id, delay>>, now)
                   ELSE lastTrue
    /\ UNCHANGED <<seen, pressedChar>>

InitInput ==
    /\ now = 0
    /\ keyboard = KeyboardInit
    /\ mouse = MouseInit
    /\ joystick = JoystickInit(0)
    /\ device \in Devices
    /\ last = [op |-> "init"]
    /\ seen = {}
    /\ fresh = {}
    /\ lastTrue = EmptyDict
    /\ pressedChar = EmptyDict
    /\ registry = NoClass
    /\ surface = NoSurface
    /\ direct = 0
    /\ made = << >>
    /\ MenuIdle

KeyboardUpdateCall ==
    /\ device.tracker = "keyboard"
    /\ \E events \in BoundedSeq(KeyEvents, MaxBatch) :
        /\ keyboard' = KeyboardUpdate(keyboard, events)
        /\ NoteUpdate(events)
    /\ UNCHANGED <<now, mouse, joystick, device, registry, made, surface, direct, menuVars>>

KeyboardPushCall ==
    /\ device.tracker = "keyboard"
    /\ \E key \in {device.polled}, delay \in Delays :
        LET r == KeyboardPush(keyboard, key, delay, now) IN
        /\ keyboard' = r.obj
        /\ NotePush("key", key, delay, r.ret)
    /\ UNCHANGED <<now, mouse, joystick, device, registry, made, surface, direct, menuVars>>

MouseUpdateCall ==
    /\ device.tracker = "mouse"
    /\ \E events \in BoundedSeq(MouseButtonEvents \cup MouseMotionEvents, MaxBatch) :
        /\ mouse' = MouseUpdate(mouse, events)
        /\ NoteUpdate(events)
    /\ UNCHANGED <<now, keyboard, joystick, device, registry, made, surface, direct, menuVars>>

MousePushCall ==
    /\ device.tracker = "mouse"
    /\ \E button \in {device.polled}, delay \in Delays :
        LET r == MousePush(mouse, button, delay, now) IN
        /\ mouse' = r.obj
        /\ NotePush("mbutton", button, delay, r.ret)
    /\ UNCHANGED <<now, keyboard, joystick, device, registry, made, surface, direct, menuVars>>

JoystickUpdateCall ==
    /\ device.tracker \in {"joystick.button", "joystick.axis", "joystick.hat"}
    /\ \E events \in BoundedSeq(JoyEvents, MaxBatch) :
        /\ joystick' = JoystickUpdate(joystick, events)
        /\ NoteUpdate(events)
    /\ UNCHANGED <<now, keyboard, mouse, device, registry, made, surface, direct, menuVars>>

JoystickPushButtonCall ==
    /\ device.tracker = "joystick.button"
    /\ \E button \in {device.polled}, delay \in Delays :
        LET r == JoystickPushButton(joystick, button, delay, now) IN
        /\ joystick' = r.obj
        /\ NotePush("jbutton", button, delay, r.ret)
    /\ UNCHANGED <<now, keyboard, mouse, device, registry, made, surface, direct, menuVars>>

JoystickPushAxisCall ==
    /\ device.tracker = "joystick.axis"
    /\ \E axis \in {device.polled}, delay \in Delays :
        LET r == JoystickPushAxis(joystick, axis, delay, now) IN
        /\ joystick' = r.obj
        /\ NotePush("axis", axis, delay, r.ret)
    /\ UNCHANGED <<now, keyboard, mouse, device, registry, made, surface, direct, menuVars>>

JoystickPushHatCall ==
    /\ device.tracker = "joystick.hat"
    /\ \E hat \in {device.polled}, delay \in Delays :
        LET r == JoystickPushHat(joystick, hat, delay, now) IN
        /\ joystick' = r.obj
        /\ NotePush("hat", hat, delay, r.ret)
    /\ UNCHANGED <<now, keyboard, mouse, device, registry, made, surface, direct, menuVars>>

\* time passes between two calls
\* the rectangles handed to Mouse.inside: two units wide and high, shifted
\* across and down the positions the pointer takes
Corners == {<<x, -1>> : x \in -2..2} \cup {<<-1, y>> : y \in -2..2} \cup {<<1, 1>>}

Rects == {[topleft |-> c, size |-> <<2, 2>>] : c \in Corners}

\* mouse.inside(area)
MouseInsideCall ==
    /\ device.tracker = "mouse"
    /\ \E area \in Rects :
        last' = [op |-> "inside", area |-> area,
                 ret |-> IF MouseInside(mouse, area) THEN "True" ELSE "False"]
    /\ UNCHANGED <<now, keyboard, mouse, joystick, device, registry, made, surface, direct, seen, fresh, lastTrue, pressedChar, menuVars>>

Tick ==
    /\ \E t \in Instants : t > now /\ now' = t
    /\ UNCHANGED <<keyboard, mouse, joystick, device, registry, made, surface, direct, last, seen, fresh, lastTrue, pressedChar, menuVars>>

NextInput ==
    \/ KeyboardUpdateCall
    \/ KeyboardPushCall
    \/ MouseUpdateCall
    \/ MousePushCall
    \/ MouseInsideCall
    \/ JoystickUpdateCall
    \/ JoystickPushButtonCall
    \/ JoystickPushAxisCall
    \/ JoystickPushHatCall
    \/ Tick

SpecInput == InitInput /\ [][NextInput]_vars

----------------------------------------------------------------------------
(* A program that constructs Options, each with any existing Option or     *)
(* None as previous_option and as next_option.                             *)

\* the trackers unused, the history empty
TrackersIdle ==
    /\ now = 0
    /\ keyboard = KeyboardInit
    /\ mouse = MouseInit
    /\ joystick = JoystickInit(0)
    /\ last = [op |-> "init"]
    /\ seen = {}
    /\ fresh = {}
    /\ lastTrue = EmptyDict
    /\ pressedChar = EmptyDict
    /\ registry = NoClass
    /\ surface = NoSurface
    /\ direct = 0
    /\ made = << >>

InitOption ==
    /\ TrackersIdle
    /\ device = [tracker |-> "none", polled |-> None]
    /\ MenuIdle

NewOption ==
    /\ Len(options) + direct < MaxOptionCalls
    /\ \E previous_option \in 0..Len(options), next_option \in 0..Len(options) :
        /\ options' = OptionInit(options, previous_option, next_option)
        /\ lastNew' = [id |-> Len(options) + 1, previous_option |-> previous_option,
                       next_option |-> next_option]
    /\ raised' = ""
    /\ trace' = <<Call("Option", Len(options) + 1)>>
    /\ UNCHANGED <<trackerVars, screen, menu, stack, pc, applied>>

\* Option(previous_option=..., next_option=..., action=f)
NewOptionAction ==
    /\ Len(options) + direct < MaxOptionCalls
    /\ \E previous_option \in 0..Len(options), next_option \in 0..Len(options) :
        LET r == OptionInitAction(options, previous_option, next_option) IN
        /\ options' = r.opts
        /\ raised' = r.raised
    /\ trace' = <<Call("Option", None)>>
    /\ UNCHANGED <<trackerVars, screen, menu, stack, pc, applied, lastNew>>

\* option.apply() on an Option constructed before
OptionApplyCall ==
    /\ \E o \in 1..Len(options) :
        LET r == OptionApply(options, o) IN
        /\ options' = r.opts
        /\ raised' = r.raised
        /\ trace' = <<Call("Option.apply", o)>> \o r.calls
    /\ UNCHANGED <<trackerVars, screen, menu, stack, pc, applied, lastNew>>

\* a call made directly on an Option constructed before: what it leaves
\* alone, and the count of such calls
OptionDirect ==
    /\ Len(options) + direct < MaxOptionCalls
    /\ direct' = direct + 1
    /\ UNCHANGED <<trackerVarsButDirect, screen, menu, stack, pc, applied, raised>>

\* option.onfocus(), called directly as lab.py does
OptionOnFocusCall ==
    /\ \E o \in 1..Len(options) :
        options' = OnFocus(options, o) /\ trace' = <<Call("onfocus", o)>>
    /\ UNCHANGED lastNew
    /\ OptionDirect

\* option.onblur(), called directly as lab.py does
OptionOnBlurCall ==
    /\ \E o \in 1..Len(options) :
        options' = OnBlur(options, o) /\ trace' = <<Call("onblur", o)>>
    /\ UNCHANGED lastNew
    /\ OptionDirect

\* the colours assigned to message_color and background_color
Colors == {"black", "red"}

\* option.message_color = value
OptionMessageColorCall ==
    /\ \E o \in 1..Len(options), value \in Colors :
        /\ options' = TextSetMessageColor(options, o, value)
        /\ trace' = <<Call("message_color", o)>>
    /\ UNCHANGED lastNew
    /\ OptionDirect

\* option.background_color = value
OptionBackgroundColorCall ==
    /\ \E o \in 1..Len(options), value \in Colors \cup {"None"} :
        /\ options' = TextSetBackgroundColor(options, o, value)
        /\ trace' = <<Call("background_color", o)>>
    /\ UNCHANGED lastNew
    /\ OptionDirect

\* the coordinates assigned to x and y
Coordinates == {10, 20}

\* the positions assigned to pos
OptionPositions == {<<10, 20>>}

\* option.pos = value
OptionPosCall ==
    /\ \E o \in 1..Len(options), value \in OptionPositions :
        /\ options' = SpriteSetPos(options, o, value)
        /\ trace' = <<Call("pos", o)>>
    /\ UNCHANGED lastNew
    /\ OptionDirect

\* option.x = value
OptionXCall ==
    /\ \E o \in 1..Len(options), value \in Coordinates :
        /\ options' = SpriteSetX(options, o, value)
        /\ trace' = <<Call("x", o)>>
    /\ UNCHANGED lastNew
    /\ OptionDirect

\* option.y = value
OptionYCall ==
    /\ \E o \in 1..Len(options), value \in Coordinates :
        /\ options' = SpriteSetY(options, o, value)
        /\ trace' = <<Call("y", o)>>
    /\ UNCHANGED lastNew
    /\ OptionDirect

\* option.next_option = value, an assignment to the plain attribute
OptionNextOptionCall ==
    /\ \E o \in 1..Len(options), value \in 0..Len(options) :
        /\ options' = [options EXCEPT ![o].next_option = value]
        /\ trace' = <<Call("next_option", o)>>
    /\ lastNew' = NoOption
    /\ OptionDirect

\* option.previous_option = value, an assignment to the plain attribute
OptionPreviousOptionCall ==
    /\ \E o \in 1..Len(options), value \in 0..Len(options) :
        /\ options' = [options EXCEPT ![o].previous_option = value]
        /\ trace' = <<Call("previous_option", o)>>
    /\ lastNew' = NoOption
    /\ OptionDirect

NextOption ==
    \/ NewOption
    \/ NewOptionAction
    \/ OptionApplyCall
    \/ OptionOnFocusCall
    \/ OptionOnBlurCall
    \/ OptionMessageColorCall
    \/ OptionBackgroundColorCall
    \/ OptionPosCall
    \/ OptionXCall
    \/ OptionYCall
    \/ OptionNextOptionCall
    \/ OptionPreviousOptionCall

SpecOption == InitOption /\ [][NextOption]_vars

----------------------------------------------------------------------------
(* A program that constructs Options wired as data/menus.py wires them     *)
(* (unlinked, a chain, a chain closed into a ring), constructs one Menu    *)
(* over some of them, calls focus() and runs loop().                       *)

\* n Options constructed with no links
RECURSIVE Unlinked(_)
Unlinked(n) == IF n = 0 THEN << >> ELSE OptionInit(Unlinked(n - 1), None, None)

\* n Options, each constructed with the one before it as previous_option
RECURSIVE Chain(_)
Chain(n) == IF n = 0 THEN << >> ELSE OptionInit(Chain(n - 1), n - 1, None)

\* a chain whose last Option is constructed with the first as next_option
Ring(n) == IF n >= 2 THEN OptionInit(Chain(n - 1), n - 1, 1) ELSE Chain(n)

Wirings == UNION {{Unlinked(n), Chain(n), Ring(n)} : n \in 0..MaxMenuOptions}

\* the lists of some of the first n Options, in construction order
Lists(n) ==
    {q \in BoundedSeq(1..n, n) : \A i, j \in 1..Len(q) : i < j => q[i] < q[j]}

\* instants at which the clock is read by the loop
MenuInstants ==
    {0, FrameTime, UpDownDelay + FrameTime, ConfirmDelay + UpDownDelay + FrameTime}

\* instants at which the clock is read while a MainMenu runs: one frame apart
MainInstants == {i * FrameTime : i \in 0..MaxFrames}

\* pointer positions: outside every Option, and inside the stacked Options
MenuPoints == {<<0, 0>>, <<400, 300>>, <<400, 340>>}

\* pointer positions over a MainMenu and its ExitMenu: inside EDITOR and YES,
\* inside OPTIONS and NO, inside EXIT
MainPoints == {<<400, 250>>, <<400, 340>>, <<400, 400>>}

\* the backend events of a run, by the device the user holds
MenuEvents ==
    CASE device.polled = "arrows" ->
            {KeyDownEvent(k, 0) : k \in {"K_UP", "K_DOWN"}}
                \cup {KeyUpEvent(k, 0) : k \in {"K_UP", "K_DOWN"}}
      [] device.polled = "confirm" ->
            {KeyDownEvent("K_RETURN", 0), KeyUpEvent("K_RETURN", 0),
             KeyDownEvent("K_KP_ENTER", 0), [type |-> "QUIT"]}
      [] device.polled = "pointer" ->
            {[type |-> "MOUSEMOTION", pos |-> p, rel |-> <<1, 0>>] : p \in MenuPoints}
                \cup {[type |-> "MOUSEBUTTONDOWN", button |-> 1],
                      [type |-> "MOUSEBUTTONUP", button |-> 1]}
      [] device.polled = "arrows and pointer" ->
            {KeyDownEvent("K_DOWN", 0)}
                \cup {[type |-> "MOUSEMOTION", pos |-> p, rel |-> <<1, 0>>] :
                        p \in {<<0, 0>>, <<400, 300>>}}
      [] device.polled = "keys" ->
            {KeyDownEvent("K_UP", 0), KeyDownEvent("K_DOWN", 0),
             KeyDownEvent("K_RETURN", 0), KeyUpEvent("K_RETURN", 0), [type |-> "QUIT"]}
      [] device.polled = "click and confirm" ->
            {KeyDownEvent("K_RETURN", 0), [type |-> "MOUSEBUTTONDOWN", button |-> 1]}
                \cup {[type |-> "MOUSEMOTION", pos |-> p, rel |-> <<1, 0>>] :
                        p \in {<<400, 250>>, <<400, 400>>}}
      [] device.polled = "pointer and quit" ->
            {[type |-> "MOUSEMOTION", pos |-> p, rel |-> <<1, 0>>] : p \in MainPoints}
                \cup {[type |-> "MOUSEBUTTONDOWN", button |-> 1],
                      [type |-> "MOUSEBUTTONUP", button |-> 1], [type |-> "QUIT"]}
      [] OTHER -> {}

\* the instants of a run
LoopInstants == IF device.tracker = "main" THEN MainInstants ELSE MenuInstants

InitMenu ==
    /\ TrackersIdle
    /\ device \in {[tracker |-> "menu", polled |-> f] :
                    f \in {"arrows", "confirm", "pointer", "arrows and pointer"}}
    /\ screen = ScreenInit
    /\ options \in Wirings
    /\ menu = NoMenu
    /\ stack = << >>
    /\ pc = "idle"
    /\ applied = None
    /\ raised = ""
    /\ lastNew = NoOption
    /\ trace = <<Call("init", None)>>

\* Menu(options=list), size being the default screen.size
MenuInitCall ==
    /\ ~menu.built
    /\ device.tracker = "menu"
    /\ \E list \in Lists(Len(options)) :
        LET r == MenuInit(options, list, ScreenSize(ScreenInit)) IN
        /\ options' = r.opts
        /\ menu' = r.menu
    /\ trace' = <<Call("Menu", None)>>
    /\ UNCHANGED <<trackerVars, screen, stack, pc, applied, raised, lastNew>>

\* MainMenu()
MainMenuInitCall ==
    /\ ~menu.built
    /\ device.tracker = "main"
    /\ LET r == MainMenuInit(options) IN
        /\ options' = r.opts
        /\ menu' = r.menu
    /\ trace' = <<Call("Menu", None)>>
    /\ UNCHANGED <<trackerVars, screen, stack, pc, applied, raised, lastNew>>

\* menu.focus(option) called by the application while no loop runs
MenuFocusCall ==
    /\ menu.built
    /\ pc \in {"idle", "returned"}
    /\ \E option \in 0..Len(options) :
        LET r == MenuFocus(options, menu, option) IN
        /\ options' = r.opts
        /\ menu' = r.menu
        /\ raised' = r.raised
        /\ trace' = <<Call("focus", option)>> \o r.calls
    /\ UNCHANGED <<trackerVars, screen, stack, pc, applied, lastNew>>

\* menu.loop() is called by the application
LoopCall ==
    /\ menu.built
    /\ pc \in {"idle", "returned"}
    /\ pc' = "while"
    /\ trace' = <<Call("loop", None)>>
    /\ UNCHANGED <<trackerVars, screen, options, menu, stack, applied, raised, lastNew>>

\* line 104, the condition is false: loop() returns, to the application or to
\* the apply() of the Menu that opened this one, whose confirm step ends with
\* it; the ExitMenu and its Options are local to that apply()
LoopReturn ==
    /\ pc = "while"
    /\ ~(screen.running /\ menu.running)
    /\ IF stack = << >>
       THEN /\ pc' = "returned"
            /\ UNCHANGED <<options, menu, stack>>
       ELSE /\ pc' = "while"
            /\ menu' = stack[Len(stack)]
            /\ stack' = SubSeq(stack, 1, Len(stack) - 1)
            /\ options' = SubSeq(options, 1, Len(options) - Len(menu.options))
    /\ trace' = <<Call("return", None)>>
    /\ UNCHANGED <<trackerVars, screen, applied, raised, lastNew>>

\* lines 104-108: the condition is true, the events are read and handed to
\* the screen, the keyboard and the mouse
\* the mouse buttons a batch presses
DownButtons(events) ==
    {events[i].button : i \in {j \in 1..Len(events) : events[j].type = "MOUSEBUTTONDOWN"}}

LoopEvents ==
    /\ pc = "while"
    /\ screen.running /\ menu.running
    /\ \E events \in BoundedSeq(MenuEvents, MaxBatch) :
        /\ screen' = ScreenUpdate(screen, events)
        /\ keyboard' = KeyboardUpdate(keyboard, events)
        /\ mouse' = MouseUpdate(mouse, events)
        /\ last' = [op |-> "update", down |-> DownButtons(events)]
    /\ pc' = "navigate"
    /\ trace' = <<Call("events", None)>>
    /\ UNCHANGED <<now, joystick, device, registry, made, surface, direct, seen, fresh, lastTrue, pressedChar>>
    /\ UNCHANGED <<options, menu, stack, applied, raised, lastNew>>

\* lines 109-120: key navigation, then pointer focus
LoopNavigate ==
    /\ pc = "navigate"
    /\ IF menu.option # None
       THEN LET k == LoopKeys(keyboard, options, menu, now)
                f == LoopPointer(mouse, k.opts, k.menu)
            IN  /\ keyboard' = k.keyboard
                /\ options' = f.opts
                /\ menu' = f.menu
                /\ trace' = <<Call("navigate", None)>> \o k.calls \o f.calls
       ELSE /\ trace' = <<Call("navigate", None)>>
            /\ UNCHANGED <<keyboard, options, menu>>
    /\ pc' = "render"
    /\ UNCHANGED <<now, mouse, joystick, device, registry, made, surface, direct, last, seen, fresh, lastTrue, pressedChar>>
    /\ UNCHANGED <<screen, stack, applied, raised, lastNew>>

\* lines 121-123: the menu is drawn and clock.tick(20) waits for the frame
LoopRender ==
    /\ pc = "render"
    /\ \E t \in LoopInstants : t >= now + FrameTime /\ now' = t
    /\ pc' = "confirm"
    /\ trace' = <<Call("render", None)>>
    /\ UNCHANGED <<keyboard, mouse, joystick, device, registry, made, surface, direct, last, seen, fresh, lastTrue, pressedChar>>
    /\ UNCHANGED menuVarsButPc

\* lines 124-127: the confirm keys and the click, then apply(); the apply() of
\* a MainMenu on EXIT constructs an ExitMenu and calls its loop()
LoopConfirm ==
    /\ pc = "confirm"
    /\ IF menu.option # None
       THEN LET c == LoopConfirmQueries(keyboard, mouse, options, menu, now)
                a == MenuApply(screen, menu)
                e == ExitMenuInit(options)
            IN  /\ keyboard' = c.keyboard
                /\ mouse' = c.mouse
                /\ raised' = c.raised
                /\ pc' = IF c.raised # "" THEN "raised" ELSE "while"
                /\ IF c.apply
                   THEN /\ applied' = menu.option
                        /\ screen' = a.screen
                        /\ IF a.open
                           THEN /\ stack' = Append(stack, a.menu)
                                /\ options' = e.opts
                                /\ menu' = e.menu
                                /\ trace' = <<Call("confirm", None), Call("apply", menu.option),
                                              Call("loop", None)>>
                           ELSE /\ menu' = a.menu
                                /\ trace' = <<Call("confirm", None), Call("apply", menu.option)>>
                                /\ UNCHANGED <<options, stack>>
                   ELSE /\ trace' = <<Call("confirm", None)>>
                        /\ UNCHANGED <<screen, options, menu, stack, applied>>
       ELSE /\ pc' = "while"
            /\ trace' = <<Call("confirm", None)>>
            /\ UNCHANGED <<keyboard, mouse, raised, applied, screen, options, menu, stack>>
    /\ UNCHANGED <<now, joystick, device, registry, made, surface, direct, last, seen, fresh, lastTrue, pressedChar, lastNew>>

NextMenu ==
    \/ MenuInitCall
    \/ MenuFocusCall
    \/ LoopCall
    \/ LoopReturn
    \/ LoopEvents
    \/ LoopNavigate
    \/ LoopRender
    \/ LoopConfirm

SpecMenu == InitMenu /\ [][NextMenu]_vars

----------------------------------------------------------------------------
(* A program that constructs the MainMenu of data/menus.py and runs its    *)
(* loop(): EXIT opens an ExitMenu, whose loop() runs inside the apply().   *)

InitMain ==
    /\ TrackersIdle
    /\ device \in {[tracker |-> "main", polled |-> f] :
                    f \in {"keys", "pointer and quit", "click and confirm"}}
    /\ MenuIdle

\* menu.running = False, assigned by the application while no loop runs
MenuStopCall ==
    /\ menu.built
    /\ pc \in {"idle", "returned"}
    /\ menu.running
    /\ menu' = [menu EXCEPT !.running = FALSE]
    /\ trace' = <<Call("stop", None)>>
    /\ UNCHANGED <<trackerVars, screen, options, stack, pc, applied, raised, lastNew>>

NextMain ==
    \/ MainMenuInitCall
    \/ MenuStopCall
    \/ LoopCall
    \/ LoopReturn
    \/ LoopEvents
    \/ LoopNavigate
    \/ LoopRender
    \/ LoopConfirm

SpecMain == InitMain /\ [][NextMain]_vars

----------------------------------------------------------------------------
(* A program that assigns the six mode flags of the Screen, in any order.  *)

InitScreen ==
    /\ TrackersIdle
    /\ device = [tracker |-> "none", polled |-> None]
    /\ MenuIdle

\* the arguments of a flag assignment, as the history records them
FlagCall(flag, value) == <<Call(flag, IF value THEN 1 ELSE 0)>>

\* screen.fullscreen = value
ScreenFullscreenCall ==
    /\ \E value \in BOOLEAN :
        screen' = ScreenSetFullscreen(screen, value) /\ trace' = FlagCall("fullscreen", value)
    /\ UNCHANGED <<trackerVars, options, menu, stack, pc, applied, raised, lastNew>>

\* screen.doublebuf = value
ScreenDoublebufCall ==
    /\ \E value \in BOOLEAN :
        screen' = ScreenSetDoublebuf(screen, value) /\ trace' = FlagCall("doublebuf", value)
    /\ UNCHANGED <<trackerVars, options, menu, stack, pc, applied, raised, lastNew>>

\* screen.hwsurface = value
ScreenHwsurfaceCall ==
    /\ \E value \in BOOLEAN :
        screen' = ScreenSetHwsurface(screen, value) /\ trace' = FlagCall("hwsurface", value)
    /\ UNCHANGED <<trackerVars, options, menu, stack, pc, applied, raised, lastNew>>

\* screen.opengl = value
ScreenOpenglCall ==
    /\ \E value \in BOOLEAN :
        screen' = ScreenSetOpengl(screen, value) /\ trace' = FlagCall("opengl", value)
    /\ UNCHANGED <<trackerVars, options, menu, stack, pc, applied, raised, lastNew>>

\* screen.resizable = value
ScreenResizableCall ==
    /\ \E value \in BOOLEAN :
        screen' = ScreenSetResizable(screen, value) /\ trace' = FlagCall("resizable", value)
    /\ UNCHANGED <<trackerVars, options, menu, stack, pc, applied, raised, lastNew>>

\* screen.noframe = value
ScreenNoframeCall ==
    /\ \E value \in BOOLEAN :
        screen' = ScreenSetNoframe(screen, value) /\ trace' = FlagCall("noframe", value)
    /\ UNCHANGED <<trackerVars, options, menu, stack, pc, applied, raised, lastNew>>

\* the windowed sizes assigned and reported by VIDEORESIZE events
ScreenSizes == {<<640, 480>>, <<800, 600>>}

\* what a step on the Screen leaves alone
ScreenIdle == UNCHANGED <<trackerVars, options, menu, stack, pc, applied, raised, lastNew>>

\* screen.size = value
ScreenSizeCall ==
    /\ \E value \in ScreenSizes :
        screen' = ScreenSetSize(screen, value) /\ trace' = <<Call("size", value)>>
    /\ ScreenIdle

\* screen.width = value
ScreenWidthCall ==
    /\ \E value \in {size[1] : size \in ScreenSizes} :
        screen' = ScreenSetWidth(screen, value) /\ trace' = <<Call("width", value)>>
    /\ ScreenIdle

\* screen.height = value
ScreenHeightCall ==
    /\ \E value \in {size[2] : size \in ScreenSizes} :
        screen' = ScreenSetHeight(screen, value) /\ trace' = <<Call("height", value)>>
    /\ ScreenIdle

\* screen.title = value
ScreenTitleCall ==
    /\ \E value \in {"Lab", "Pygame Window"} :
        screen' = ScreenSetTitle(screen, value) /\ trace' = <<Call("title", value)>>
    /\ ScreenIdle

\* screen.running = False, as the application does on escape
ScreenRunningCall ==
    /\ screen' = [screen EXCEPT !.running = FALSE]
    /\ trace' = <<Call("running", 0)>>
    /\ ScreenIdle

\* the backend events the Screen reads
ScreenEvents == {[type |-> "QUIT"]} \cup {[type |-> "VIDEORESIZE", size |-> z] : z \in ScreenSizes}

\* screen.update(events)
ScreenUpdateCall ==
    /\ \E events \in BoundedSeq(ScreenEvents, MaxBatch) :
        screen' = ScreenUpdate(screen, events)
    /\ trace' = <<Call("update", None)>>
    /\ ScreenIdle

NextScreen ==
    \/ ScreenFullscreenCall
    \/ ScreenDoublebufCall
    \/ ScreenHwsurfaceCall
    \/ ScreenOpenglCall
    \/ ScreenResizableCall
    \/ ScreenNoframeCall
    \/ ScreenSizeCall
    \/ ScreenWidthCall
    \/ ScreenHeightCall
    \/ ScreenTitleCall
    \/ ScreenRunningCall
    \/ ScreenUpdateCall

SpecScreen == InitScreen /\ [][NextScreen]_vars

----------------------------------------------------------------------------
(* A program that decorates one class and calls its constructor, with      *)
(* positional and keyword arguments, a few times.                          *)

\* a construction call
Construct(args, kwargs) == [args |-> args, kwargs |-> kwargs]

\* the decorated classes: Screen and Joystick as softwares.py decorates them,
\* the Singleton of the docstring and Pair, both under parameters=True
Classes ==
    {Decorate("Screen", FALSE), Decorate("Joystick", TRUE), Decorate("Singleton", TRUE),
     Decorate("Pair", TRUE)}

\* the calls a run makes, by class: Screen(), Screen(title="Lab"),
\* Screen(title="Pygame Window"), Screen((640, 480)), Screen(caption="Lab"),
\* Screen(1), Screen(title=1), Screen(color=(255, 255, 255)),
\* Screen(color="Lab"), Screen(flags="Lab"), Screen(1, flags="FULLSCREEN");
\* Joystick(), Joystick(0), Joystick(id_=0), Joystick(1), Joystick(id_=1),
\* Joystick(0, id_=0); Singleton(1), Singleton(3), Singleton(id=1), Singleton();
\* Pair(1, 2), Pair(1, b=2), Pair(a=1, b=2), Pair(b=2, a=1)
Calls(name) ==
    CASE name = "Screen" ->
            {Construct(<< >>, << >>), Construct(<< >>, <<<<"title", StrValue("Lab")>>>>),
             Construct(<< >>, <<<<"title", StrValue("Pygame Window")>>>>),
             Construct(<<TupleValue(<<640, 480>>)>>, << >>),
             Construct(<< >>, <<<<"caption", StrValue("Lab")>>>>),
             Construct(<<IntValue(1)>>, << >>),
             Construct(<< >>, <<<<"title", IntValue(1)>>>>),
             Construct(<< >>, <<<<"color", TupleValue(<<255, 255, 255>>)>>>>),
             Construct(<< >>, <<<<"color", StrValue("Lab")>>>>),
             Construct(<< >>, <<<<"flags", StrValue("Lab")>>>>),
             Construct(<<IntValue(1)>>, <<<<"flags", StrValue("FULLSCREEN")>>>>)}
      [] name = "Joystick" ->
            {Construct(<< >>, << >>), Construct(<<IntValue(0)>>, << >>),
             Construct(<< >>, <<<<"id_", IntValue(0)>>>>), Construct(<<IntValue(1)>>, << >>),
             Construct(<< >>, <<<<"id_", IntValue(1)>>>>),
             Construct(<<IntValue(0)>>, <<<<"id_", IntValue(0)>>>>)}
      [] name = "Singleton" ->
            {Construct(<<IntValue(1)>>, << >>), Construct(<<IntValue(3)>>, << >>),
             Construct(<< >>, <<<<"id", IntValue(1)>>>>), Construct(<< >>, << >>)}
      [] name = "Pair" ->
            {Construct(<<IntValue(1), IntValue(2)>>, << >>),
             Construct(<<IntValue(1)>>, <<<<"b", IntValue(2)>>>>),
             Construct(<< >>, <<<<"a", IntValue(1)>>, <<"b", IntValue(2)>>>>),
             Construct(<< >>, <<<<"b", IntValue(2)>>, <<"a", IntValue(1)>>>>)}
      [] OTHER -> {}

InitSingleton ==
    /\ now = 0
    /\ keyboard = KeyboardInit
    /\ mouse = MouseInit
    /\ joystick = JoystickInit(0)
    /\ device = [tracker |-> "none", polled |-> None]
    /\ last = [op |-> "init"]
    /\ seen = {}
    /\ fresh = {}
    /\ lastTrue = EmptyDict
    /\ pressedChar = EmptyDict
    /\ registry \in Classes
    /\ surface = NoSurface
    /\ direct = 0
    /\ made = << >>
    /\ MenuIdle

\* one call of the decorated class
ConstructCall ==
    /\ Len(made) < MaxCalls
    /\ \E call \in Calls(registry.name) :
        LET r == Wrapper(registry, call) IN
        /\ registry' = r.obj
        /\ made' = Append(made, [call |-> call, ret |-> r.ret, raised |-> r.raised])
    /\ UNCHANGED <<now, keyboard, mouse, joystick, device, last, seen, fresh, lastTrue,
                   pressedChar, surface, direct, menuVars>>

NextSingleton == ConstructCall

SpecSingleton == InitSingleton /\ [][NextSingleton]_vars

----------------------------------------------------------------------------
(* What the trackers hold for an identifier <<channel, identifier>> *)

\* "Down", "Up", or "absent" when the tracker has no state for it
Tracked(cid) ==
    LET id == cid[2] IN
    CASE cid[1] = "key" ->
            IF ~Has(keyboard.key_type, id) THEN "absent"
            ELSE IF keyboard.key_type[id] = "KEYDOWN" THEN "Down" ELSE "Up"
      [] cid[1] = "mbutton" ->
            IF ~Has(mouse.button_type, id) THEN "absent"
            ELSE IF mouse.button_type[id] = "MOUSEBUTTONDOWN" THEN "Down" ELSE "Up"
      [] cid[1] = "jbutton" ->
            IF ~Has(joystick.button_type, id) THEN "absent"
            ELSE IF joystick.button_type[id] = "JOYBUTTONDOWN" THEN "Down" ELSE "Up"
      [] OTHER -> "absent"

\* the repeat timer of the identifier in the trackers kb, ms, js; -1 when
\* it was never set
TimerIn(kb, ms, js, cid) ==
    LET id == cid[2]
        d == CASE cid[1] = "key" -> kb.key_time
               [] cid[1] = "mbutton" -> ms.button_time
               [] cid[1] = "jbutton" -> js.button_time
               [] cid[1] = "axis" -> js.axis_time
               [] cid[1] = "hat" -> js.hat_time
    IN  IF Has(d, id) THEN d[id] ELSE -1

Timer(cid) == TimerIn(keyboard, mouse, joystick, cid)

Pushed == last.op = "push"

LastId == <<last.chan, last.id>>

ButtonChannels == {"key", "mbutton", "jbutton"}

\* a step that is a push call: the clock stands still and the latest call
\* is a push (a batch or the clock would have changed one of them)
PushStep == last'.op = "push" /\ now' = now

----------------------------------------------------------------------------
(* C1: on every tracker, push on an identifier that no event of any batch  *)
(* has named so far returns None (Unknown), never True or False, whatever  *)
(* the delay and whatever the other identifiers received.                  *)
C1_UnseenIsUnknown == (Pushed /\ LastId \notin seen) => last.ret = "None"

\* "A" is queried with the 99 s delay after events of the "a" key without
\* shift only, and the answer is None
C1_Witness ==
    /\ Pushed /\ last.chan = "key" /\ last.id = "A" /\ last.delay = ConfirmDelay
    /\ <<"key", "K_a">> \in seen /\ LastId \notin seen
    /\ last.ret = "None"

(* C2: a push query never raises: after any batches, also when the first   *)
(* event ever seen for the identifier is an Up, it returns True, False or  *)
(* None.                                                                   *)
C2_PushNeverRaises == Pushed => last.ret \in {"True", "False", "None"}

(* C3: the first push after a batch with a Down event for the identifier   *)
(* returns True whatever the delay, and a further push at the instant of   *)
(* that True returns False unless the elapsed time (zero) is already >=    *)
(* the delay.                                                              *)
C3_Step ==
    PushStep /\ last'.chan \in ButtonChannels =>
        LET cid == <<last'.chan, last'.id>> IN
        /\ cid \in fresh => last'.ret = "True"
        /\ (cid \notin fresh /\ Has(lastTrue, cid) /\ lastTrue[cid] = now
                /\ last'.delay > 0)
                => last'.ret = "False"

C3_FirstPushTrueOnce == [][C3_Step]_vars

\* a held key answered True at this instant and the next query, with the
\* 99 s delay, answered False
C3_Witness ==
    /\ Pushed /\ last.chan = "key" /\ last.ret = "False" /\ last.delay = ConfirmDelay
    /\ Tracked(LastId) = "Down"
    /\ Has(lastTrue, LastId) /\ lastTrue[LastId] = now

(* C4: while an identifier is held Down and its press has been reported,   *)
(* push(id, d) returns True iff at least d has elapsed since the last push *)
(* of the identifier that returned True, and every push that returns True  *)
(* sets the timer to the current time; so a Down at 0 queried with d at    *)
(* 0, d/2, d and 2d answers True, False, True, True.                       *)
C4_Step ==
    PushStep =>
        LET cid == <<last'.chan, last'.id>> IN
        /\ (last'.chan \in ButtonChannels /\ Tracked(cid) = "Down" /\ cid \notin fresh)
                => (last'.ret = "True"
                        <=> (Has(lastTrue, cid) /\ now - lastTrue[cid] >= last'.delay))
        /\ last'.ret = "True" => TimerIn(keyboard', mouse', joystick', cid) = now

C4_RepeatCadence == [][C4_Step]_vars

\* a query with delay d at instant 2d that answers True on a held button and
\* restarts its timer, as the fourth query of the scenario does
C4_Witness ==
    /\ Pushed /\ last.chan = "mbutton" /\ last.delay = TestDelay /\ last.ret = "True"
    /\ now = 2 * TestDelay
    /\ Tracked(LastId) = "Down"
    /\ Timer(LastId) = now

(* C5: with delay 0 push returns True on every poll while the identifier   *)
(* is held Down; with the 99 s delay, once a push has returned True the    *)
(* next push of the identifier does not return True when no batch came in  *)
(* between, however much time has passed.                                  *)
C5_OrigStep ==
    PushStep /\ last'.chan \in ButtonChannels =>
        LET cid == <<last'.chan, last'.id>> IN
        /\ (last'.delay = 0 /\ Tracked(cid) = "Down") => last'.ret = "True"
        /\ (Pushed /\ LastId = cid /\ last.delay = ConfirmDelay /\ last.ret = "True"
                /\ last'.delay = ConfirmDelay)
                => last'.ret # "True"

C5_OnceHoweverLong == [][C5_OrigStep]_vars

(* C6: whenever the tracked state of the identifier is Up, push returns    *)
(* False for every delay, also when a Down and then an Up were consumed    *)
(* with no push in between. Stated for the identifiers that were pressed   *)
(* and released (a Down event was seen, the latest event is an Up).        *)
C6_OrigStep ==
    PushStep =>
        LET cid == <<last'.chan, last'.id>> IN
        (Tracked(cid) = "Up" /\ (cid \in fresh \/ Has(lastTrue, cid)))
            => last'.ret = "False"

C6_UpIsFalse == [][C6_OrigStep]_vars

(* C7: the key code, the character produced with the latest KeyDown and    *)
(* the key name of one physical key always have the same Down/Up state,    *)
(* also after a KeyUp reported with another modifier state.                *)
C7_AliasLockstep ==
    \A k \in DOMAIN pressedChar :
        LET c == pressedChar[k]
            n == KeyName(k)
        IN  /\ c # "" => Tracked(<<"key", c>>) = Tracked(<<"key", k>>)
            /\ n # "" => Tracked(<<"key", n>>) = Tracked(<<"key", k>>)

(* C8: constructing Option A with previous_option = P leaves P.next_option *)
(* = A and A.previous_option = P; with next_option = N it leaves           *)
(* N.previous_option = A and A.next_option = N; with neither argument both *)
(* links of A are None.                                                    *)
C8_WiringSymmetric ==
    lastNew.id # None =>
        LET A == lastNew.id
            P == lastNew.previous_option
            N == lastNew.next_option
        IN  /\ P # None => (options[P].next_option = A /\ options[A].previous_option = P)
            /\ N # None => (options[N].previous_option = A /\ options[A].next_option = N)
            /\ (P = None /\ N = None)
                    => (options[A].previous_option = None /\ options[A].next_option = None)

\* the EXIT Option of MainMenu: the third Option constructed after the
\* second, with the first as next_option
C8_Witness ==
    /\ lastNew.id = 3 /\ lastNew.previous_option = 2 /\ lastNew.next_option = 1
    /\ options[2].next_option = 3 /\ options[1].previous_option = 3

\* the Options of the Menu's list, as a set
ListOptions == {menu.options[i] : i \in 1..Len(menu.options)}

(* C9: right after Menu.__init__ the Menu is running; with a non-empty     *)
(* list its current Option is the first of the list and that Option is the *)
(* only one of the list in the focused visual state; with an empty list    *)
(* there is no current Option and no Option is focused.                    *)
C9_Step ==
    (~menu.built /\ menu'.built) =>
        /\ menu'.running = TRUE
        /\ Len(menu'.options) > 0 =>
                /\ menu'.option = menu'.options[1]
                /\ \A i \in 1..Len(menu'.options) :
                        Focused(options', menu'.options[i]) <=> menu'.options[i] = menu'.option
        /\ Len(menu'.options) = 0 =>
                /\ menu'.option = None
                /\ \A o \in 1..Len(options') : ~Focused(options', o)

C9_FirstFocusedAtConstruction == [][C9_Step]_vars

\* a Menu over the second and third Options, the second one focused
C9_Witness ==
    /\ menu.built /\ pc = "idle"
    /\ menu.options = <<2, 3>> /\ menu.option = 2
    /\ Focused(options, 2) /\ Blurred(options, 3)

(* C10: for a Menu with a non-empty list, after any focus() calls and loop *)
(* iterations, exactly one Option of the list is focused: the current      *)
(* Option is not None, it is in the focused visual state, and every other  *)
(* Option of the list is in the blurred visual state.                      *)
C10_ExactlyOneFocused ==
    (menu.built /\ Len(menu.options) > 0) =>
        /\ menu.option # None
        /\ Focused(options, menu.option)
        /\ \A o \in ListOptions : o # menu.option => Blurred(options, o)
        /\ Cardinality({o \in ListOptions : Focused(options, o)}) = 1

----------------------------------------------------------------------------
(* Menu.focus, navigation and activation *)

\* the latest Menu step is the call named op
StepIs(op) == trace[1].op = op

\* the calls Menu.focus(X) makes when it changes the current Option from old
FocusCalls(old, X) == <<Call("onblur", old), Call("option", X), Call("onfocus", X)>>

C11_Step ==
    trace'[1].op = "focus" =>
        LET X == trace'[1].arg
            old == menu.option
        IN  IF X = None \/ X = old
            THEN Tail(trace') = << >> /\ menu'.option = old /\ options' = options
            ELSE Tail(trace') = FocusCalls(old, X) /\ menu'.option = X

\* C11: Menu.focus(X) makes no onblur/onfocus call and leaves the current
\* Option unchanged when X is null or already current; otherwise it makes
\* exactly one onblur call on the old current Option, then sets X as the
\* current Option, then makes exactly one onfocus call on X, in that order.
C11_FocusCallsInOrder == [][C11_Step]_vars

\* a step of the loop from one position to the next
LoopStep(from, to) == pc = from /\ pc' = to

\* the key named key gives an edge at the navigation step about to be taken
KeyEdge(key) == KeyboardPush(keyboard, key, UpDownDelay, now).ret = "True"

\* the Option the links lead to from o: the previous link on an 'up' edge,
\* then the next link on a 'down' edge, a null link leaving the Option as it is
AfterUp(o) ==
    IF KeyEdge("up") /\ options[o].previous_option # None
    THEN options[o].previous_option ELSE o

AfterKeys(o) ==
    IF KeyEdge("down") /\ options[AfterUp(o)].next_option # None
    THEN options[AfterUp(o)].next_option ELSE AfterUp(o)

C12_Step ==
    LoopStep("navigate", "render") /\ menu.option # None /\ ~MouseMove(mouse)
        => menu'.option = AfterKeys(menu.option)

\* C12: in Menu.loop a 'down' edge moves focus to the focused Option's next
\* link and an 'up' edge to its previous link, the ring's last Option leading
\* to the first; where the link is null nothing changes.  With the pointer
\* still, two 'down' presses on the ring A->B->C->A give A, B, C.
C12_KeysFollowLinks == [][C12_Step]_vars

\* the second 'down' press on a ring of three has just moved focus from B to C
C12_Witness ==
    /\ pc = "render"
    /\ device.polled = "arrows"
    /\ menu.options = <<1, 2, 3>>
    /\ options[3].next_option = 1
    /\ now > 0
    /\ trace = <<Call("navigate", None)>> \o FocusCalls(2, 3)
    /\ menu.option = 3

\* the positions, in the Menu's list, of the Options whose area holds the pointer
PointerHits ==
    {i \in 1..Len(menu.options) : MouseInside(mouse, Area(options, menu.options[i]))}

\* the first Option of the list whose area holds the pointer
FirstHit == menu.options[CHOOSE i \in PointerHits : \A j \in PointerHits : i <= j]

C13_Step ==
    LoopStep("navigate", "render") /\ menu.option # None =>
        LET cur == AfterKeys(menu.option) IN
        /\ IF MouseMove(mouse) /\ ~MouseInside(mouse, Area(options, cur))
           THEN menu'.option = IF PointerHits # {} THEN FirstHit ELSE cur
           ELSE menu'.option = cur
        /\ MouseMove(mouse) /\ PointerHits # {}
              => MouseInside(mouse', Area(options', menu'.option))

\* C13: in the navigation step, after the keys, a pointer that moved and is
\* not inside the focused Option's area moves focus to the first Option of
\* the list whose area holds it, and to none when no area holds it; a still
\* pointer, or one inside the focused Option, changes nothing.  So when the
\* pointer moved and lies inside an Option of the Menu, the focused Option
\* holds the pointer after the step, even if a key moved focus away in it.
C13_PointerFocus == [][C13_Step]_vars

\* in one iteration a 'down' edge moved focus from B to C and the pointer,
\* moved over B, brought it back
C13_Witness ==
    /\ pc = "render"
    /\ trace = <<Call("navigate", None)>> \o FocusCalls(2, 3) \o FocusCalls(3, 2)
    /\ menu.option = 2
    /\ MouseInside(mouse, Area(options, 2))

\* C18: Option.apply() invokes the attached action when there is one and it
\* is callable; with no action, or one that cannot be invoked, it displays
\* the message instead, and it never raises.
C18_OptionApplyNeverRaises ==
    StepIs("Option.apply") =>
        /\ raised = ""
        /\ Len(trace) = 2 /\ trace[2].op \in {"action", "print"}

----------------------------------------------------------------------------
(* The life of a loop *)

\* both flags the loop condition reads
BothRunning == screen.running /\ menu.running

C14_Step ==
    /\ pc = "while" =>
          IF BothRunning THEN pc' = "navigate" /\ trace'[1].op = "events"
          ELSE trace'[1].op = "return"
    /\ pc = "navigate" => pc' = "render"
    /\ pc = "render" => pc' = "confirm"
    /\ pc = "confirm" => pc' = "while" /\ trace'[1].op = "confirm"

\* C14: Menu.loop() begins an iteration exactly when both the screen's and
\* the Menu's running flag are true at the start of the iteration, and
\* returns otherwise; an iteration once begun executes all its steps (events,
\* navigation, rendering, confirm and a possible apply()) whatever happens to
\* the flags in it, a cleared flag taking effect at the next iteration start.
C14_IterationsRunWhole == [][C14_Step]_vars

\* the loop of the innermost Menu is in progress
InLoop == pc \in {"while", "navigate", "render", "confirm"}

C15_Step ==
    /\ menu.built /\ ~menu.running =>
          /\ InLoop => trace'[1].op = "return"
          /\ stack' = stack => ~menu'.running
    /\ pc = "returned" => pc' = "returned" \/ (pc' = "while" /\ trace'[1].op = "loop")
    /\ ~screen.running =>
          /\ ~screen'.running
          /\ trace'[1].op # "events"
          /\ pc' # "raised"

\* C15: once a Menu's running flag is false its loop in progress begins no
\* further iteration and returns to its caller, no operation sets the flag
\* back to true, and a returned loop stays returned until loop() is called
\* again; once the screen's running flag is false no iteration begins and
\* every loop on the call stack ends by returning.
C15_ClosedIsTerminal == [][C15_Step]_vars

\* the Options of the Menus waiting on the call stack
StackedOptions ==
    UNION {{stack[i].options[j] : j \in 1..Len(stack[i].options)} : i \in 1..Len(stack)}

C16_Step ==
    /\ stack # << >> /\ stack' = stack =>
          \A o \in StackedOptions : options'[o] = options[o]
    /\ Len(stack') < Len(stack) =>
          /\ pc = "while" /\ ~BothRunning
          /\ menu' = stack[Len(stack)]
          /\ \A o \in StackedOptions : options'[o] = options[o]
          /\ Focused(options', menu'.option)
    /\ pc = "while" /\ trace[1].op = "return" /\ ~screen.running =>
          pc' = "returned" /\ trace'[1].op = "return"

\* C16: while the loop() of a sub-menu opened from the parent's apply()
\* (MainMenu EXIT -> ExitMenu) runs, the parent and its Options are left as
\* they were: every step is the sub-menu's.  The parent resumes only when the
\* sub-menu's loop condition is false, with the Option it had focused still
\* current and focused, and if the screen's running flag is then false the
\* parent's next step is to return.
C16_NestedBlocking == [][C16_Step]_vars

\* NO closed the ExitMenu: the MainMenu has just resumed, EXIT still focused
C16_Witness ==
    /\ pc = "while"
    /\ trace[1].op = "return"
    /\ stack = << >>
    /\ menu.kind = "MainMenu"
    /\ menu.option = menu.options[4]
    /\ Focused(options, menu.option)
    /\ screen.running
    /\ applied = 6

\* the names of the keys that confirm
ConfirmKeys == {"enter", "return", "keypad enter"}

\* a press of a confirm key that no query has reported yet
ActivateEdge ==
    \E key \in ConfirmKeys : Has(keyboard.key_first, key) /\ keyboard.key_first[key]

\* a press of mouse button 1 that no query has reported yet, the pointer
\* being inside the focused Option
ClickEdge ==
    /\ Has(mouse.button_first, 1) /\ mouse.button_first[1]
    /\ MouseInside(mouse, Area(options, menu.option))

\* the apply() calls of the latest step
Applies(tr) == {i \in 1..Len(tr) : tr[i].op = "apply"}

C17_Step ==
    pc = "confirm" /\ trace'[1].op = "confirm" /\ menu.option # None =>
        /\ Applies(trace') # {} <=> ActivateEdge \/ ClickEdge
        /\ Applies(trace') # {} => Applies(trace') = {2} /\ trace'[2].arg = menu.option

\* C17: in an iteration with a focused Option, apply() is invoked, once,
\* after rendering and on the Option focused after the navigation, if and
\* only if a confirm key ('enter', 'return', 'keypad enter') was pressed since
\* it was last reported, or mouse button 1 was while the pointer is inside
\* the focused Option; a key or button that stays held activates once.
C17_ActivateOncePerPress == [][C17_Step]_vars

----------------------------------------------------------------------------
(* The Menu with no Options *)

C19_Step ==
    /\ menu.built /\ Len(menu.options) = 0 =>
          /\ menu' = menu
          /\ options' = options
          /\ raised' \in {"", raised}
          /\ pc' # "raised"
    /\ menu.built /\ menu.option = None => Applies(trace') = {}

\* C19: on a Menu with no Options every step of a loop iteration, whatever
\* the input, and every focus-dependent operation, focus(X) with a non-null X
\* included, leaves the Menu and the Options as they are and raises no
\* error; apply() is never invoked while no Option is focused.
C19_EmptyMenuIsNoOp == [][C19_Step]_vars

----------------------------------------------------------------------------
(* The Screen's mode flags *)

FlagNames == {"fullscreen", "doublebuf", "hwsurface", "opengl", "resizable", "noframe"}

C20_Step ==
    trace'[1].op \in FlagNames =>
        /\ screen'[trace'[1].op] = (trace'[1].arg = 1)
        /\ \A f \in FlagNames \ {trace'[1].op} : screen'[f] = screen[f]
        /\ screen'.display_mode.flags = ScreenFlags(screen')

\* C20: an assignment to one of the Screen's six mode flags (fullscreen,
\* doublebuf, hwsurface, opengl, resizable, noframe) sets that flag, leaves
\* the other five as they were, and hands the display backend the mode
\* bitmask computed from the six flags as they now are.
C20_ModeFollowsFlags == [][C20_Step]_vars

----------------------------------------------------------------------------
(* Singletons *)

\* the calls that returned an instance
Returned == {i \in 1..Len(made) : made[i].raised = ""}

\* the keyword arguments of a call, as a set of items
Items(kwargs) == {kwargs[i] : i \in 1..Len(kwargs)}

\* two calls pass the same arguments: the same positional arguments and the
\* same value for every keyword
SameArguments(c1, c2) == c1.args = c2.args /\ Items(c1.kwargs) = Items(c2.kwargs)

\* C21: under the singleton decorator with parameters=False every call of
\* the class returns the one instance the first call created, whatever the
\* arguments of the later calls; with parameters=True two calls return the
\* same instance if and only if they pass the same arguments.
C21_SingletonPerArguments ==
    \A i, j \in Returned :
        IF registry.parameters
        THEN made[i].ret = made[j].ret <=> SameArguments(made[i].call, made[j].call)
        ELSE made[i].ret = made[j].ret /\ made[i].ret.n = 1

----------------------------------------------------------------------------
(* Joystick axes and hats, the pointer *)

\* the joystick channel queried by the push about to be taken is in its
\* neutral state: the axis value last reported lies in the dead-zone, the hat
\* value last reported is (0, 0)
Neutral(chan, id) ==
    \/ /\ chan = "axis" /\ Has(joystick.axis_value, id)
       /\ -DeadZone <= joystick.axis_value[id] /\ joystick.axis_value[id] <= DeadZone
    \/ chan = "hat" /\ Has(joystick.hat_value, id) /\ joystick.hat_value[id] = <<0, 0>>

\* the channel has a value, not neutral, whose report a push has answered
Deflected(chan, id) ==
    \/ /\ chan = "axis" /\ Has(joystick.axis_value, id) /\ ~joystick.axis_first[id]
       /\ ~Neutral(chan, id)
    \/ /\ chan = "hat" /\ Has(joystick.hat_value, id) /\ ~joystick.hat_first[id]
       /\ ~Neutral(chan, id)

C22_Step ==
    PushStep =>
        LET cid == <<last'.chan, last'.id>> IN
        /\ Neutral(last'.chan, last'.id) => last'.ret # "True"
        /\ Deflected(last'.chan, last'.id) =>
              (last'.ret = "True" <=> (Has(lastTrue, cid) /\ now - lastTrue[cid] >= last'.delay))

\* C22: push_axis never returns True while the axis value last reported lies
\* in the dead-zone [-0.1, 0.1] and push_hat never while the hat value last
\* reported is (0, 0); a deflected axis or hat repeats as a held button does,
\* True again only once the delay has elapsed since the last True.
C22_NeutralNeverPushed == [][C22_Step]_vars

\* the corners of the rectangle of the latest inside call
Left == last.area.topleft[1]

Top == last.area.topleft[2]

Right == last.area.topleft[1] + last.area.size[1]

Bottom == last.area.topleft[2] + last.area.size[2]

\* C23: Mouse.inside(rect) is True exactly when topleft.x <= x <= bottomright.x
\* and topleft.y <= y <= bottomright.y for the pointer position (x, y): True
\* on every edge and corner of the rectangle, False one unit outside of it on
\* any side.
C23_InsideIsInclusive ==
    last.op = "inside" =>
        LET x == mouse.pos[1]
            y == mouse.pos[2]
        IN  /\ last.ret = "True" <=> (Left <= x /\ x <= Right /\ Top <= y /\ y <= Bottom)
            /\ (x \in {Left, Right} /\ y \in Top..Bottom) => last.ret = "True"
            /\ (y \in {Top, Bottom} /\ x \in Left..Right) => last.ret = "True"
            /\ (x \in {Left - 1, Right + 1} \/ y \in {Top - 1, Bottom + 1}) => last.ret = "False"

\* the pointer, moved, is on the bottom right corner of the rectangle
C23_Witness ==
    /\ last.op = "inside" /\ last.ret = "True"
    /\ mouse.pos = <<1, 1>> /\ Right = 1 /\ Bottom = 1

\* the batches handed to Mouse.update
MouseBatches == BoundedSeq(MouseButtonEvents \cup MouseMotionEvents, MaxBatch)

HasMotion(events) == \E i \in 1..Len(events) : events[i].type = "MOUSEMOTION"

HasMoved(events) ==
    \E i \in 1..Len(events) : events[i].type = "MOUSEMOTION" /\ events[i].rel # <<0, 0>>

\* the buttons a batch names
BatchButtons(events) ==
    {events[i].button : i \in {j \in 1..Len(events) : events[j].type # "MOUSEMOTION"}}

\* the entry of a dictionary for a key, none or one value
Entry(d, k) == IF Has(d, k) THEN <<d[k]>> ELSE << >>

SameButton(ms1, ms2, b) ==
    /\ Entry(ms1.button_type, b) = Entry(ms2.button_type, b)
    /\ Entry(ms1.button_first, b) = Entry(ms2.button_first, b)
    /\ Entry(ms1.button_time, b) = Entry(ms2.button_time, b)

C24_Step ==
    \A events \in MouseBatches :
        (device.tracker = "mouse" /\ last'.op = "update" /\ mouse' = MouseUpdate(mouse, events)) =>
            /\ MouseMove(mouse') <=> HasMoved(events)
            /\ ~HasMotion(events) =>
                  /\ mouse'.rel = <<0, 0>> /\ mouse'.pos = mouse.pos
                  /\ \A b \in ButtonIds \ BatchButtons(events) : SameButton(mouse, mouse', b)

\* C24: after Mouse.update(batch), move() is True exactly when the batch held
\* a pointer motion with a nonzero relative motion; a batch without a motion
\* event resets rel to (0, 0) and leaves the position, and the state of every
\* button it does not name, unchanged.
C24_MotionPerFrame == [][C24_Step]_vars

----------------------------------------------------------------------------
(* The layout of a Menu whose Option list is changed after construction *)

InitLayout ==
    /\ TrackersIdle
    /\ device = [tracker |-> "menu", polled |-> "layout"]
    /\ screen = ScreenInit
    /\ options \in Wirings
    /\ menu = NoMenu
    /\ stack = << >>
    /\ pc = "idle"
    /\ applied = None
    /\ raised = ""
    /\ lastNew = NoOption
    /\ trace = <<Call("init", None)>>

\* menu.options.append(option): the list is a plain attribute of the Menu
MenuOptionsAppend ==
    /\ menu.built
    /\ \E o \in 1..Len(options) :
        /\ \A i \in 1..Len(menu.options) : menu.options[i] # o
        /\ menu' = [menu EXCEPT !.options = Append(@, o)]
        /\ trace' = <<Call("append", o)>>
    /\ UNCHANGED <<trackerVars, screen, options, stack, pc, applied, raised, lastNew>>

\* menu.reset_options()
MenuResetOptionsCall ==
    /\ menu.built
    /\ options' = ResetOptions(options, menu.options, menu.size)
    /\ trace' = <<Call("reset_options", None)>>
    /\ UNCHANGED <<trackerVars, screen, menu, stack, pc, applied, raised, lastNew>>

NextLayout ==
    \/ MenuInitCall
    \/ MenuOptionsAppend
    \/ MenuResetOptionsCall

SpecLayout == InitLayout /\ [][NextLayout]_vars

\* the heights of the first n Options of the Menu's list, added up
RECURSIVE Above(_)
Above(n) == IF n = 0 THEN 0 ELSE Above(n - 1) + options[menu.options[n]].size[2]

\* Option i of the list is centred horizontally and sits below the i - 1
\* Options before it, the block of all of them centred vertically
LaidOut(i) ==
    LET o == options[menu.options[i]] IN
    /\ o.pos[1] = (menu.size[1] - o.size[1]) \div 2
    /\ o.pos[2] = (menu.size[2] - Above(Len(menu.options))) \div 2 + Above(i - 1)

\* C25: whenever a Menu exists, also after its Option list was changed, Option
\* i of the list is at y_i = (H - sum of all heights) / 2 + sum of the heights
\* before it and is centred horizontally: the Options are stacked without gap
\* or overlap and the block is centred vertically.
C25_LayoutFollowsList ==
    menu.built => \A i \in 1..Len(menu.options) : LaidOut(i)

\* the links of a store of Options are symmetric
Symmetric(opts) ==
    \A X, Y \in 1..Len(opts) : opts[X].next_option = Y <=> opts[Y].previous_option = X

\* a construction of an Option on a store whose links are symmetric leaves
\* them symmetric
C26_Step == (trace'[1].op = "Option" /\ Symmetric(options)) => Symmetric(options')

\* C26: after any sequence of Option constructions, each with any existing
\* Options (or None) as previous_option and next_option, also ones that have a
\* neighbour on that side already, X.next_option is Y exactly when
\* Y.previous_option is X, for all Options X and Y: no links at the start,
\* and every construction keeps them symmetric.
C26_LinksSymmetric == [][C26_Step]_vars

\* the Menu's current Option is one of its list, or None with an empty list
OwnsFocused(m) ==
    \/ \E i \in 1..Len(m.options) : m.options[i] = m.option
    \/ m.option = None /\ m.options = << >>

\* C27: the Menu's current Option is always an Option of that Menu's own list,
\* or None when the list is empty, whatever key navigation, pointer focus and
\* focus() calls happened.
C27_FocusedIsOwned == menu.built => OwnsFocused(menu)

----------------------------------------------------------------------------
(* The click and the iteration that received it *)

C28_Step ==
    (pc = "confirm" /\ StepIs("confirm")' /\ Applies(trace') # {} /\ ~ActivateEdge)
        => (last.op = "update" /\ 1 \in last.down)

\* C28: an apply() that no confirm key caused is caused by a press of mouse
\* button 1 that the batch of the same iteration delivered: a press is
\* evaluated and consumed in the iteration that received it and causes no
\* apply() in a later iteration or in the loop of another Menu, also when a
\* confirm key is pressed in the same batch.
C28_ClickHandledWhereReceived == [][C28_Step]_vars

----------------------------------------------------------------------------
(* Queries with several delays on one identifier *)

C29_Step ==
    PushStep =>
        LET cid == <<last'.chan, last'.id>>
            own == <<last'.chan, last'.id, last'.delay>>
        IN  (last'.chan \in ButtonChannels /\ Tracked(cid) = "Down" /\ Has(lastTrue, own))
                => (last'.ret = "True" <=> now - lastTrue[own] >= last'.delay)

\* C29: for an identifier that stays held, push(id, d) returns True exactly
\* when d has elapsed since the last True of a push(id, d) with that same
\* delay, as it does when no push(id, d') with another delay is made in
\* between: the instants of the True answers do not depend on other queries.
C29_DelaysIndependent == [][C29_Step]_vars

----------------------------------------------------------------------------
(* One tracker per joystick *)

\* the id_ that Joystick.__init__(self, id_=0) binds for a construction call
JoystickId(call) ==
    IF Len(call.args) > 0 THEN call.args[1]
    ELSE IF Len(call.kwargs) > 0 THEN call.kwargs[1][2]
    ELSE IntValue(0)

\* C30: there is one tracker per joystick id: construction calls that name the
\* same joystick, as Joystick(), Joystick(0) and Joystick(id_=0) do, return
\* the same instance.
C30_OneTrackerPerJoystick ==
    registry.name = "Joystick" =>
        \A i, j \in Returned :
            JoystickId(made[i].call) = JoystickId(made[j].call) => made[i].ret = made[j].ret

----------------------------------------------------------------------------
(* A Surface whose width, height and size are assigned *)

\* the sizes a Surface is constructed with: the default and the screen's
SurfaceSizes == {<<50, 50>>, ScreenSize(ScreenInit)}

\* the widths and heights assigned
Lengths == {50, 100, 200, 600}

InitSurface ==
    /\ now = 0
    /\ keyboard = KeyboardInit
    /\ mouse = MouseInit
    /\ joystick = JoystickInit(0)
    /\ device = [tracker |-> "none", polled |-> None]
    /\ last = [op |-> "init"]
    /\ seen = {}
    /\ fresh = {}
    /\ lastTrue = EmptyDict
    /\ pressedChar = EmptyDict
    /\ registry = NoClass
    /\ made = << >>
    /\ surface \in {SurfaceInit(size) : size \in SurfaceSizes}
    /\ direct = 0
    /\ MenuIdle

\* what a Surface step leaves alone
SurfaceIdle ==
    UNCHANGED <<now, keyboard, mouse, joystick, device, last, seen, fresh, lastTrue,
                pressedChar, registry, made, direct, screen, options, menu, stack, pc,
                applied, raised, lastNew>>

\* surface.width = value
SurfaceWidthCall ==
    /\ \E value \in Lengths :
        surface' = SurfaceSetWidth(surface, value) /\ trace' = <<Call("width", value)>>
    /\ SurfaceIdle

\* surface.height = value
SurfaceHeightCall ==
    /\ \E value \in Lengths :
        surface' = SurfaceSetHeight(surface, value) /\ trace' = <<Call("height", value)>>
    /\ SurfaceIdle

\* surface.size = value
SurfaceSizeCall ==
    /\ \E value \in Lengths \X Lengths :
        surface' = SurfaceSetSize(surface, value) /\ trace' = <<Call("size", value)>>
    /\ SurfaceIdle

\* surface.reset_image()
SurfaceResetImageCall ==
    /\ surface' = SurfaceResetImage(surface)
    /\ trace' = <<Call("reset_image", None)>>
    /\ SurfaceIdle

\* surface.reset_area()
SurfaceResetAreaCall ==
    /\ surface' = SurfaceResetArea(surface)
    /\ trace' = <<Call("reset_area", None)>>
    /\ SurfaceIdle

\* the Surface is pickled and unpickled
SurfaceSetStateCall ==
    /\ surface' = SurfaceSetState(surface)
    /\ trace' = <<Call("__setstate__", None)>>
    /\ SurfaceIdle

NextSurface ==
    \/ SurfaceWidthCall
    \/ SurfaceHeightCall
    \/ SurfaceSizeCall
    \/ SurfaceResetImageCall
    \/ SurfaceResetAreaCall
    \/ SurfaceSetStateCall

SpecSurface == InitSurface /\ [][NextSurface]_vars

C31_Step ==
    /\ StepIs("width")' => (surface'.area[1] = trace'[1].arg /\ surface'.area[2] = surface.area[2])
    /\ StepIs("height")' => (surface'.area[2] = trace'[1].arg /\ surface'.area[1] = surface.area[1])
    /\ trace'[1].op \in {"width", "height", "size"} =>
          /\ surface'.size = surface'.area
          /\ surface'.image = surface'.size

\* C31: after any sequence of width, height and size assignments on a
\* Surface, assigning width leaves the height as it was, assigning height
\* leaves the width as it was, and the stored size, from which the image is
\* rebuilt, equals (area.width, area.height).
C31_SizeFollowsArea == [][C31_Step]_vars

====
